---- MODULE Spec2Model ----
(***************************************************************************)
(* Verification model of the CQ091 report verifier                         *)
(* (src/verfication_CQ091.py).                                             *)
(*                                                                         *)
(* Text labels are sequences of one-character strings, so that trimming,   *)
(* lower-casing, tokenisation and difflib's similarity ratio are computed  *)
(* character by character as the Python code computes them.                *)
(***************************************************************************)
EXTENDS Integers, Sequences, FiniteSets, Bags, TLC

VARIABLES
    design_col,          \* analyze_difference: first argument
    verification_col,    \* analyze_difference: second argument
    error_type,          \* analyze_difference: returned verdict
    design_doc,          \* design spec workbook: sheet -> cells read by the comparators
    verification_doc,    \* verification workbook: sheet -> cells read by the comparators
    standard_number,     \* argument of test_standard_report_columns (0: not called)
    standard_result,     \* return value of test_standard_report_columns
    summary_result,      \* return value of test_summary_report
    std_df,              \* verification workbook: the Standard 1, 2, 3 Report data frames
    cases_result,        \* return value of test_specific_cases_dates
    summary_df,          \* verification workbook: the Summary Total data frame
    basic_results,       \* verify_complete_summary_sheet: basic_results at line 1135
    summary_total_passed, \* return value of verify_complete_summary_sheet
    cover_df,            \* verification workbook: the first sheet
    cover_results,       \* run_all_cq091_tests: return value of test_cover_page
    standard_results,    \* run_all_cq091_tests: the list standard_results
    sensitivity_results, \* run_all_cq091_tests: return value of test_sensitivity_and_formula
    contact_result,      \* run_all_cq091_tests: return value of test_contact_log_requirements
    all_passed,          \* return value of run_all_cq091_tests
    pc,                  \* run_all_cq091_tests: the check that runs next
    stdout,              \* the section banners printed by run_all_cq091_tests
    writer               \* create_developer_report: the sheets of the report workbook

vars == <<design_col, verification_col, error_type,
          design_doc, verification_doc, standard_number, standard_result,
          summary_result, std_df, cases_result,
          summary_df, basic_results, summary_total_passed,
          cover_df, cover_results, standard_results, sensitivity_results,
          contact_result, all_passed, pc, stdout, writer>>

(***************************************************************************)
(* Bounds of the model.                                                    *)
(***************************************************************************)
MaxLen == 3      \* longest exhaustively enumerated label
MaxCols == 2     \* longest exhaustively enumerated label list
MaxExtraRows == 1   \* rows of the Standard 2 Report beyond one per requested case
MaxRows == 2        \* data rows of the Standard Report that varies in a reconciliation
MaxChangedRows == 1 \* data rows of a Standard Report reconciled with a changed summary

(***************************************************************************)
(* str primitives: lower(), split(), ' '.join(), strip(), sorted().        *)
(***************************************************************************)
UpperToLower ==
    [A |-> "a", B |-> "b", C |-> "c", D |-> "d", E |-> "e", F |-> "f",
     G |-> "g", H |-> "h", I |-> "i", J |-> "j", K |-> "k", L |-> "l",
     M |-> "m", N |-> "n", O |-> "o", P |-> "p", Q |-> "q", R |-> "r",
     S |-> "s", T |-> "t", U |-> "u", V |-> "v", W |-> "w", X |-> "x",
     Y |-> "y", Z |-> "z"]

\* the characters of the model in code-point order (the order sorted() uses)
CodePoints ==
    <<"\t", "\n", " ", "#", "-", "0", "1", "2", "3", "4", "5", "6", "7", "8", "9",
      "A", "B", "C", "D", "E", "F", "G", "H", "I", "J", "K", "L", "M",
      "N", "O", "P", "Q", "R", "S", "T", "U", "V", "W", "X", "Y", "Z",
      "a", "b", "c", "d", "e", "f", "g", "h", "i", "j", "k", "l", "m",
      "n", "o", "p", "q", "r", "s", "t", "u", "v", "w", "x", "y", "z">>

ord(c) == CHOOSE i \in DOMAIN CodePoints : CodePoints[i] = c

isspace(c) == c \in {" ", "\t", "\n"}

lower_char(c) == IF c \in DOMAIN UpperToLower THEN UpperToLower[c] ELSE c

lower(s) == [i \in DOMAIN s |-> lower_char(s[i])]

RECURSIVE lstrip(_)
lstrip(s) ==
    IF s = <<>> THEN <<>>
    ELSE IF isspace(Head(s)) THEN lstrip(Tail(s)) ELSE s

RECURSIVE rstrip(_)
rstrip(s) ==
    IF s = <<>> THEN <<>>
    ELSE IF isspace(s[Len(s)]) THEN rstrip(SubSeq(s, 1, Len(s) - 1)) ELSE s

strip(s) == rstrip(lstrip(s))

\* number of leading non-whitespace characters of s
RECURSIVE word_len(_)
word_len(s) ==
    IF s = <<>> \/ isspace(Head(s)) THEN 0 ELSE 1 + word_len(Tail(s))

\* s.split(): the maximal runs of non-whitespace characters, in order
RECURSIVE split(_)
split(s) ==
    IF s = <<>> THEN <<>>
    ELSE IF isspace(Head(s)) THEN split(Tail(s))
    ELSE LET n == word_len(s)
         IN  <<SubSeq(s, 1, n)>> \o split(SubSeq(s, n + 1, Len(s)))

\* ' '.join(words)
RECURSIVE join(_)
join(words) ==
    IF words = <<>> THEN <<>>
    ELSE IF Len(words) = 1 THEN words[1]
    ELSE words[1] \o <<" ">> \o join(Tail(words))

\* lexicographic order of two strings by code point (str.__lt__)
RECURSIVE str_lt(_, _)
str_lt(s, t) ==
    IF t = <<>> THEN FALSE
    ELSE IF s = <<>> THEN TRUE
    ELSE IF Head(s) = Head(t) THEN str_lt(Tail(s), Tail(t))
    ELSE ord(Head(s)) < ord(Head(t))

\* insert word w into the sorted list ws
RECURSIVE insort(_, _)
insort(w, ws) ==
    IF ws = <<>> THEN <<w>>
    ELSE IF str_lt(Head(ws), w) THEN <<Head(ws)>> \o insort(w, Tail(ws))
    ELSE <<w>> \o ws

\* sorted(words)
RECURSIVE sorted(_)
sorted(words) ==
    IF words = <<>> THEN <<>> ELSE insort(Head(words), sorted(Tail(words)))

Range(f) == {f[i] : i \in DOMAIN f}

\* word in words
contains(words, w) == \E i \in DOMAIN words : words[i] = w

(***************************************************************************)
(* difflib.SequenceMatcher(None, a, b).ratio() for strings shorter than    *)
(* 200 characters (no junk, no autojunk).  Windows are 1-based and         *)
(* inclusive: Python's a[alo:ahi] is a[alo+1 .. ahi] here.                 *)
(***************************************************************************)
\* j2len[j] while scanning a[i]: length of the common run ending at a[i], b[j]
RECURSIVE j2len(_, _, _, _, _, _)
j2len(a, b, alo, blo, i, j) ==
    IF a[i] # b[j] THEN 0
    ELSE IF i > alo /\ j > blo THEN 1 + j2len(a, b, alo, blo, i - 1, j - 1)
    ELSE 1

\* find_longest_match: <<besti, bestj, bestsize>>; the scan order (i ascending,
\* then j ascending, replace only on a strictly longer run) selects the
\* longest block that ends earliest in a and, among those, earliest in b
find_longest_match(a, b, alo, ahi, blo, bhi) ==
    LET ends == {p \in (alo..ahi) \X (blo..bhi) : a[p[1]] = b[p[2]]}
        k(p) == j2len(a, b, alo, blo, p[1], p[2])
    IN  IF ends = {} THEN <<alo, blo, 0>>
        ELSE LET bestsize == CHOOSE n \in {k(p) : p \in ends} :
                                 \A q \in ends : k(q) <= n
                 longest == {p \in ends : k(p) = bestsize}
                 e == CHOOSE p \in longest :
                          \A q \in longest :
                              \/ p[1] < q[1]
                              \/ (p[1] = q[1] /\ p[2] <= q[2])
             IN  <<e[1] - bestsize + 1, e[2] - bestsize + 1, bestsize>>

\* sum of the sizes of get_matching_blocks()
RECURSIVE matches(_, _, _, _, _, _)
matches(a, b, alo, ahi, blo, bhi) ==
    IF alo > ahi \/ blo > bhi THEN 0
    ELSE LET m == find_longest_match(a, b, alo, ahi, blo, bhi)
             i == m[1]
             j == m[2]
             k == m[3]
         IN  IF k = 0 THEN 0
             ELSE k + matches(a, b, alo, i - 1, blo, j - 1)
                    + matches(a, b, i + k, ahi, j + k, bhi)

\* ratio() as the exact fraction <<2*matches, len(a)+len(b)>>; <<1, 1>> when
\* both strings are empty
ratio(a, b) ==
    IF Len(a) + Len(b) = 0 THEN <<1, 1>>
    ELSE <<2 * matches(a, b, 1, Len(a), 1, Len(b)), Len(a) + Len(b)>>

\* similarity > 0.8.  The double nearest to n/d exceeds the double 0.8 exactly
\* when n/d > 4/5: n/d = 4/5 rounds to the very double that the literal 0.8
\* denotes, and any other n/d with d < 2^50 is further than one ulp from it.
\* mutant: the threshold test written with >=
exceeds_threshold_non_strict(r) == 5 * r[1] >= 4 * r[2]

exceeds_threshold(r) == 5 * r[1] > 4 * r[2]

(***************************************************************************)
(* analyze_difference                                                      *)
(***************************************************************************)
ExactMatch == "Exact match"
WhitespaceDifference == "Space difference (extra/missing spaces)"
CaseDifference == "Case difference (upper/lower case)"
SpellingError == "Spelling error (similarity: N.NN)"
WordOrderDifference == "Word order difference"
ExtraWordsInActual == "Extra words in verification"
MissingWordsInActual == "Missing words in verification"
ContentDifference == "Content difference"

Verdicts ==
    {ExactMatch, WhitespaceDifference, CaseDifference, SpellingError,
     WordOrderDifference, ExtraWordsInActual, MissingWordsInActual,
     ContentDifference}

\* lines 32-45: the verdicts decided on the lower-cased word lists
word_rules(d, v) ==
    LET design_words == split(lower(d))
        verification_words == split(lower(v))
    IN  IF sorted(design_words) = sorted(verification_words)
            THEN WordOrderDifference
        ELSE IF \A i \in DOMAIN design_words :
                    contains(verification_words, design_words[i])
            THEN ExtraWordsInActual
        ELSE IF \A i \in DOMAIN verification_words :
                    contains(design_words, verification_words[i])
            THEN MissingWordsInActual
        ELSE ContentDifference

\* mutant: the similarity test placed before the case test
analyze_difference_spelling_before_case(d, v) ==
    IF d = v THEN ExactMatch
    ELSE IF join(split(d)) = join(split(v)) THEN WhitespaceDifference
    ELSE IF exceeds_threshold(ratio(lower(d), lower(v))) THEN SpellingError
    ELSE IF lower(d) = lower(v) THEN CaseDifference
    ELSE word_rules(d, v)

\* mutant: the exact-match test left out
analyze_difference_no_exact(d, v) ==
    IF join(split(d)) = join(split(v)) THEN WhitespaceDifference
    ELSE IF lower(d) = lower(v) THEN CaseDifference
    ELSE IF exceeds_threshold(ratio(lower(d), lower(v))) THEN SpellingError
    ELSE word_rules(d, v)

\* mutant: the similarity test placed before the whitespace test
analyze_difference_spelling_before_space(d, v) ==
    IF d = v THEN ExactMatch
    ELSE IF exceeds_threshold(ratio(lower(d), lower(v))) THEN SpellingError
    ELSE IF join(split(d)) = join(split(v)) THEN WhitespaceDifference
    ELSE IF lower(d) = lower(v) THEN CaseDifference
    ELSE word_rules(d, v)

analyze_difference(d, v) ==
    IF d = v THEN ExactMatch
    ELSE IF join(split(d)) = join(split(v)) THEN WhitespaceDifference
    ELSE IF lower(d) = lower(v) THEN CaseDifference
    ELSE IF exceeds_threshold(ratio(lower(d), lower(v))) THEN SpellingError
    ELSE word_rules(d, v)

(***************************************************************************)
(* The two structural comparators.  A workbook maps a sheet name to what   *)
(* the comparator reads from it: [ok |-> TRUE, cells |-> the non-empty     *)
(* cells of the fixed row (or of A1:A37), in order], or [ok |-> FALSE]     *)
(* when pd.read_excel / iloc raises (missing sheet, missing row).          *)
(***************************************************************************)
design_sheet_name(n) == <<"Standard Report", n>>
verification_sheet_name(n) == <<"Standard", n, "Report">>
SummaryReport == <<"Summary Report">>
SummaryTotal == <<"Summary Total">>

DesignSheets == {design_sheet_name(n) : n \in 1..3} \cup {SummaryReport}
VerificationSheets == {verification_sheet_name(n) : n \in 1..3} \cup {SummaryTotal}

\* [str(col).strip() for col in cells]
strip_all(cells) == [i \in DOMAIN cells |-> strip(cells[i])]

min(a, b) == IF a <= b THEN a ELSE b

\* mutant: the position recorded 0-based
RECURSIVE standard_loop_zero_based(_, _, _, _)
standard_loop_zero_based(design_columns, verification_columns, i, min_length) ==
    IF i > min_length THEN <<>>
    ELSE LET design == design_columns[i]
             verification == verification_columns[i]
             rest == standard_loop_zero_based(design_columns, verification_columns,
                                              i + 1, min_length)
         IN  IF design # verification
                 THEN <<[column_number |-> i - 1,
                         design |-> design,
                         verification |-> verification,
                         error_type |-> analyze_difference(design, verification)]>>
                      \o rest
                 ELSE rest

\* the for-loop of test_standard_report_columns from index i (1-based) on:
\* <<mismatches, details>> appended for the indices i..min_length
RECURSIVE standard_loop(_, _, _, _)
standard_loop(design_columns, verification_columns, i, min_length) ==
    IF i > min_length THEN <<>>
    ELSE LET design == design_columns[i]
             verification == verification_columns[i]
             rest == standard_loop(design_columns, verification_columns,
                                   i + 1, min_length)
         IN  IF design # verification
                 THEN <<[column_number |-> i,
                         design |-> design,
                         verification |-> verification,
                         error_type |-> analyze_difference(design, verification)]>>
                      \o rest
                 ELSE rest

test_standard_report_columns(ddoc, vdoc, n) ==
    IF ~ddoc[design_sheet_name(n)].ok \/ ~vdoc[verification_sheet_name(n)].ok
        THEN [passed |-> FALSE,
              message |-> <<"Error reading files for Standard", n>>,
              details |-> <<>>]
    ELSE
    LET design_columns == strip_all(ddoc[design_sheet_name(n)].cells)
        verification_columns == strip_all(vdoc[verification_sheet_name(n)].cells)
        min_length == min(Len(design_columns), Len(verification_columns))
        positional == standard_loop(design_columns, verification_columns,
                                    1, min_length)
        details ==
            IF Len(design_columns) # Len(verification_columns)
                THEN positional \o
                     <<[column_number |-> "N/A",
                        design |-> <<"Total columns", Len(design_columns)>>,
                        verification |-> <<"Total columns", Len(verification_columns)>>,
                        error_type |-> "Column count mismatch"]>>
                ELSE positional
        \* one mismatch line is appended with every details entry
        mismatches == [k \in DOMAIN details |->
                          <<details[k].column_number, details[k].error_type>>]
    IN  IF mismatches = <<>>
            THEN [passed |-> TRUE,
                  message |-> <<"Standard", n, "columns match perfectly">>,
                  details |-> <<>>]
            ELSE [passed |-> FALSE,
                  message |-> <<"Standard", n, "column differences found">>,
                  details |-> details,
                  mismatches |-> mismatches]

\* the for-loop of test_summary_report from index i (1-based) on
RECURSIVE summary_loop(_, _, _, _)
summary_loop(design_fields, verification_fields, i, min_length) ==
    IF i > min_length THEN <<>>
    ELSE LET design == design_fields[i]
             verification == verification_fields[i]
             rest == summary_loop(design_fields, verification_fields,
                                  i + 1, min_length)
         IN  IF design # verification
                 THEN <<[row_number |-> i,
                         design |-> design,
                         verification |-> verification,
                         error_type |-> analyze_difference(design, verification)]>>
                      \o rest
                 ELSE rest

\* mutant: the length check left out
test_summary_report_no_length_check(ddoc, vdoc) ==
    IF ~ddoc[SummaryReport].ok \/ ~vdoc[SummaryTotal].ok
        THEN [passed |-> FALSE,
              message |-> <<"Error reading summary reports">>,
              details |-> <<>>]
    ELSE
    LET design_fields == strip_all(ddoc[SummaryReport].cells)
        verification_fields == strip_all(vdoc[SummaryTotal].cells)
        min_length == min(Len(design_fields), Len(verification_fields))
        details == summary_loop(design_fields, verification_fields, 1, min_length)
        mismatches == [k \in DOMAIN details |->
                          <<details[k].row_number, details[k].error_type>>]
    IN  IF mismatches = <<>>
            THEN [passed |-> TRUE,
                  message |-> <<"Summary report fields match perfectly">>,
                  details |-> <<>>]
            ELSE [passed |-> FALSE,
                  message |-> <<"Summary report field differences found">>,
                  details |-> details,
                  mismatches |-> mismatches]

test_summary_report(ddoc, vdoc) ==
    IF ~ddoc[SummaryReport].ok \/ ~vdoc[SummaryTotal].ok
        THEN [passed |-> FALSE,
              message |-> <<"Error reading summary reports">>,
              details |-> <<>>]
    ELSE
    LET design_fields == strip_all(ddoc[SummaryReport].cells)
        verification_fields == strip_all(vdoc[SummaryTotal].cells)
        min_length == min(Len(design_fields), Len(verification_fields))
        positional == summary_loop(design_fields, verification_fields,
                                   1, min_length)
        details ==
            IF Len(design_fields) # Len(verification_fields)
                THEN positional \o
                     <<[row_number |-> "N/A",
                        design |-> <<"Total fields", Len(design_fields)>>,
                        verification |-> <<"Total fields", Len(verification_fields)>>,
                        error_type |-> "Field count mismatch"]>>
                ELSE positional
        mismatches == [k \in DOMAIN details |->
                          <<details[k].row_number, details[k].error_type>>]
    IN  IF mismatches = <<>>
            THEN [passed |-> TRUE,
                  message |-> <<"Summary report fields match perfectly">>,
                  details |-> <<>>]
            ELSE [passed |-> FALSE,
                  message |-> <<"Summary report field differences found">>,
                  details |-> details,
                  mismatches |-> mismatches]

(***************************************************************************)
(* Data frames.  pd.read_excel(..., header=1) gives [ok |-> TRUE,          *)
(* columns |-> the stripped header texts in sheet order, rows |-> the data *)
(* rows, each a function from header text to cell value], or               *)
(* [ok |-> FALSE] when it raises.  An empty cell is NaN.                   *)
(***************************************************************************)
NaN == "NaN"
None == "None"

\* `pattern in col_lower`, tabulated for the header texts of the model:
\* HeaderPatterns[col] is the set of searched patterns that occur in col.lower()
HeaderPatterns ==
    "Case #" :>
        {"case", "#"} @@
    "Case Type" :>
        {"case", "case type"} @@
    "Previous Case Type" :>
        {"case", "case type"} @@
    "Incorrect Change Reason" :>
        {"incorrect change reason"} @@
    "7 Day Private Visit Compliant" :>
        {"7 day private visit compliant", "7"} @@
    "30 Day Private Visit Compliant" :>
        {"30 day private visit compliant", "30"} @@
    "90 Day Visit Compliant" :>
        {"90 day visit compliant", "90"} @@
    "Primary In Care Placement Type" :>
        {"primary in care placement type"} @@
    "Primary In Care Placement Type (Current)" :>
        {"primary in care placement type"} @@
    "7 Day Private Visit Exclusion - Closed Prior to Due Date" :>
        {"exclusion", "closed prior to due date", "7"} @@
    "30 Day Private Visit Exclusion - Closed Prior to Due Date" :>
        {"exclusion", "closed prior to due date", "30"} @@
    "90 Day Visit Exclusion - Closed Prior to Due Date" :>
        {"exclusion", "closed prior to due date", "90"} @@
    "30 Day Private Visit Due Date - 2025" :>
        {"30 day private visit due date", "2025", "30"} @@
    "30 Day Private Visit Contact Log Start Date - Extension" :>
        {"30 day private visit contact log start date", "extension", "30"}

in_col_lower(pattern, col) == pattern \in HeaderPatterns[col]

pd_notna(v) == v # NaN

\* .astype(str) of one cell
astype_str(v) == IF v = NaN THEN "nan" ELSE v

(***************************************************************************)
(* test_specific_cases_dates                                               *)
(***************************************************************************)
case_numbers_to_check ==
    <<"12891050", "13141575", "11739608", "13038729", "13155126">>

\* lines 294-305: the if/elif chain over the columns from index i on; a later
\* matching column replaces an earlier one
RECURSIVE find_case_columns(_, _, _)
find_case_columns(columns, i, found) ==
    IF i > Len(columns) THEN found
    ELSE LET col == columns[i]
         IN  find_case_columns(columns, i + 1,
                 IF in_col_lower("case", col) /\ in_col_lower("#", col)
                     THEN [found EXCEPT !.case_column = col]
                 ELSE IF /\ in_col_lower("30 day private visit due date", col)
                         /\ in_col_lower("2025", col)
                     THEN [found EXCEPT !.due_date_column = col]
                 ELSE IF /\ in_col_lower("30 day private visit contact log start date", col)
                         /\ in_col_lower("extension", col)
                     THEN [found EXCEPT !.contact_log_column = col]
                 ELSE found)

\* strftime('%Y-%m-%d') of a timestamp, str() of anything else
date_str(v) == IF v = NaN THEN "NaT" ELSE v

\* index of the entry of case_num in the list of per-case entries, 0 if none
entry_of(case_details, case_num) ==
    IF \E k \in DOMAIN case_details : case_details[k].case_number = case_num
        THEN CHOOSE k \in DOMAIN case_details : case_details[k].case_number = case_num
        ELSE 0

group_cases_per_row(rows, cols, i, case_details) ==
    [k \in DOMAIN rows |->
        [case_number |-> astype_str(rows[k][cols.case_column]),
         due_dates |-> <<date_str(rows[k][cols.due_date_column])>>,
         contact_log_dates |-> <<date_str(rows[k][cols.contact_log_column])>>,
         has_due_date |-> pd_notna(rows[k][cols.due_date_column]),
         has_contact_log_date |-> pd_notna(rows[k][cols.contact_log_column])]]

\* lines 343-369: the loop over the filtered rows from index i on; case_details
\* is the dict in insertion order
RECURSIVE group_cases(_, _, _, _)
group_cases(rows, cols, i, case_details) ==
    IF i > Len(rows) THEN case_details
    ELSE
    LET row == rows[i]
        case_num == astype_str(row[cols.case_column])
        due_date == row[cols.due_date_column]
        contact_log_date == row[cols.contact_log_column]
        created ==
            IF entry_of(case_details, case_num) = 0
                THEN Append(case_details,
                            [case_number |-> case_num,
                             due_dates |-> <<>>,
                             contact_log_dates |-> <<>>,
                             has_due_date |-> FALSE,
                             has_contact_log_date |-> FALSE])
                ELSE case_details
        k == entry_of(created, case_num)
        old == created[k]
        new == [case_number |-> case_num,
                due_dates |-> Append(old.due_dates, date_str(due_date)),
                contact_log_dates |-> Append(old.contact_log_dates,
                                             date_str(contact_log_date)),
                has_due_date |-> old.has_due_date \/ pd_notna(due_date),
                has_contact_log_date |->
                    old.has_contact_log_date \/ pd_notna(contact_log_date)]
    IN  group_cases(rows, cols, i + 1, [created EXCEPT ![k] = new])

\* the requested case numbers from index i on that are not in found_cases
RECURSIVE missing_from(_, _)
missing_from(i, found_cases) ==
    IF i > Len(case_numbers_to_check) THEN <<>>
    ELSE IF contains(found_cases, case_numbers_to_check[i])
        THEN missing_from(i + 1, found_cases)
        ELSE <<case_numbers_to_check[i]>> \o missing_from(i + 1, found_cases)

test_specific_cases_dates(df) ==
    IF ~df.ok
        THEN [passed |-> FALSE,
              message |-> <<"Error testing specific cases">>,
              details |-> <<>>]
    ELSE
    LET cols == find_case_columns(df.columns, 1,
                    [case_column |-> None,
                     due_date_column |-> None,
                     contact_log_column |-> None])
    IN
    IF cols.case_column = None
        THEN [passed |-> FALSE,
              message |-> <<"Case # column not found in Standard 2 Report">>,
              details |-> <<>>]
    ELSE IF cols.due_date_column = None
        THEN [passed |-> FALSE,
              message |-> <<"30 Day Private Visit Due Date - 2025 column not found">>,
              details |-> <<>>]
    ELSE IF cols.contact_log_column = None
        THEN [passed |-> FALSE,
              message |-> <<"30 Day Private Visit Contact Log Start Date - Extension column not found">>,
              details |-> <<>>]
    ELSE
    LET isin(row) == contains(case_numbers_to_check, astype_str(row[cols.case_column]))
        filtered_df == SelectSeq(df.rows, isin)
    IN
    IF Len(filtered_df) = 0
        THEN [passed |-> FALSE,
              message |-> <<"None of the specified case numbers found in column",
                            cols.case_column>>,
              details |-> <<>>]
    ELSE
    LET found_cases == [k \in DOMAIN filtered_df |->
                           astype_str(filtered_df[k][cols.case_column])]
        missing_cases == missing_from(1, found_cases)
        case_details == group_cases(filtered_df, cols, 1, <<>>)
        \* ', '.join(...) of the date strings is kept as the list of its parts
        details == [k \in DOMAIN case_details |->
                       [case_number |-> case_details[k].case_number,
                        due_date |-> case_details[k].due_dates,
                        contact_log_date |-> case_details[k].contact_log_dates,
                        has_due_date |-> case_details[k].has_due_date,
                        has_contact_log_date |-> case_details[k].has_contact_log_date]]
        all_found == Len(missing_cases) = 0
        all_have_dates == \A k \in DOMAIN details :
                              details[k].has_due_date /\ details[k].has_contact_log_date
        message_parts ==
            (IF ~all_found THEN <<<<"Missing cases", missing_cases>>>> ELSE <<>>)
            \o (IF ~all_have_dates THEN <<<<"Some cases missing dates">>>> ELSE <<>>)
    IN  [passed |-> all_found /\ all_have_dates,
         message |-> IF message_parts # <<>> THEN message_parts
                     ELSE <<<<"All cases found with complete date information">>>>,
         details |-> details,
         missing_cases |-> missing_cases]

(***************************************************************************)
(* Summary reconciliation.  Numbers of the Summary Total sheet are kept in *)
(* thousandths; a calculated value is the fraction <<n, d>> (a count c is  *)
(* <<c, 1>>).  The Summary Total sheet read with header=None is            *)
(* [ok |-> TRUE, nrows, ncols, values]: values maps the 0-based <<row,     *)
(* column>> of a filled cell to its content, every other cell inside the   *)
(* extent is empty.  A content is [kind, val] with kind "num" (a number),  *)
(* "nan" (empty), "str_number" (text float() parses) or "str_other".       *)
(***************************************************************************)
\* str.lower(), tabulated for the cell values of the model
LowerCase ==
    "" :> "" @@
    "Child in Care" :> "child in care" @@
    "child in care" :> "child in care" @@
    "Adoption" :> "adoption" @@
    "FCC" :> "fcc" @@
    "Formal Customary Care" :> "formal customary care" @@
    "Kinship Service" :> "kinship service" @@
    "No" :> "no" @@
    "NO" :> "no" @@
    "Yes" :> "yes" @@
    "Compliant" :> "compliant" @@
    "compliant" :> "compliant" @@
    "Not Compliant" :> "not compliant" @@
    "NOT COMPLIANT" :> "not compliant" @@
    "Incomplete" :> "incomplete" @@
    "Foster Home" :> "foster home" @@
    "Whereabouts Unknown" :> "whereabouts unknown" @@
    "Other" :> "other" @@
    "other" :> "other"

str_lower(s) == LowerCase[s]

\* .fillna('').astype(str) of one cell
fillna_str(v) == IF v = NaN THEN "" ELSE v

EmptyCell == [kind |-> "nan", val |-> 0]

abs(x) == IF x < 0 THEN -x ELSE x

\* int() of a number held in thousandths: truncation towards zero
int(v) == IF v >= 0 THEN v \div 1000 ELSE -((-v) \div 1000)

\* summary_df.iloc[row, col]
iloc(summary_df_, row, col) ==
    IF <<row, col>> \in DOMAIN summary_df_.values
        THEN summary_df_.values[<<row, col>>]
        ELSE EmptyCell

actual_value_zero_outside_grid(summary_df_, current_row, col_index) ==
    IF current_row < summary_df_.nrows /\ col_index < summary_df_.ncols
        THEN LET cell == iloc(summary_df_, current_row, col_index)
             IN  [none |-> FALSE,
                  val |-> CASE cell.kind = "nan" -> 0
                            [] cell.kind = "num" -> cell.val
                            [] cell.kind = "str_number" -> cell.val
                            [] cell.kind = "str_other" -> 0]
        ELSE [none |-> FALSE, val |-> 0]

\* lines 1086-1096 (and 579-591, 657-669, 742-754, 835-847, 959-971)
actual_value(summary_df_, current_row, col_index) ==
    IF current_row < summary_df_.nrows /\ col_index < summary_df_.ncols
        THEN LET cell == iloc(summary_df_, current_row, col_index)
             IN  [none |-> FALSE,
                  val |-> CASE cell.kind = "nan" -> 0
                            [] cell.kind = "num" -> cell.val
                            [] cell.kind = "str_number" -> cell.val
                            [] cell.kind = "str_other" -> 0]
        ELSE [none |-> TRUE, val |-> 0]

\* int(calculated_value) == int(actual_value) if actual_value is not None else False
count_match(calculated, actual) ==
    IF actual.none THEN FALSE ELSE calculated[1] \div calculated[2] = int(actual.val)

\* abs(calculated_float - actual_float) < 0.01
rate_match(calculated, actual) ==
    abs(1000 * calculated[1] - actual.val * calculated[2]) < 10 * calculated[2]

case_types_swapped_index ==
    <<[col_letter |-> "B", case_type |-> "child in care", col_index |-> 2],
      [col_letter |-> "C", case_type |-> "adoption", col_index |-> 1],
      [col_letter |-> "D", case_type |-> "formal customary care", col_index |-> 3],
      [col_letter |-> "E", case_type |-> "kinship service", col_index |-> 4]>>

case_types ==
    <<[col_letter |-> "B", case_type |-> "child in care", col_index |-> 1],
      [col_letter |-> "C", case_type |-> "adoption", col_index |-> 2],
      [col_letter |-> "D", case_type |-> "formal customary care", col_index |-> 3],
      [col_letter |-> "E", case_type |-> "kinship service", col_index |-> 4]>>

\* the entry of case_types with the column letter of a cell name
case_of(cell_name) ==
    case_types[CHOOSE k \in DOMAIN case_types : case_types[k].col_letter = cell_name[1]]

\* f"{col_letter}{current_row + 1}" for the rows start_row .. start_row + n - 1
cell_names(start_row, n) ==
    {<<case_types[k].col_letter, start_row + row_offset + 1>> :
        k \in DOMAIN case_types, row_offset \in 0..(n - 1)}

case_filter_no_alias(case_type, case_type_value) ==
    str_lower(case_type_value) = case_type

\* lines 1049-1053: case_type_data.str.lower() against the case type
case_filter(case_type, case_type_value) ==
    IF case_type = "formal customary care"
        THEN str_lower(case_type_value) \in {"fcc", "formal customary care"}
        ELSE str_lower(case_type_value) = case_type

NoError == [error |-> FALSE, message |-> "", raised |-> FALSE,
            section_errors |-> {}, cells |-> <<>>]

SectionError(key) == [NoError EXCEPT !.section_errors = {key}]

Raised == [NoError EXCEPT !.raised = TRUE]

Error(msg) == [NoError EXCEPT !.error = TRUE, !.message = msg]

SectionCells(cells) == [NoError EXCEPT !.cells = cells]

\* lines 996-1013: the if/elif chain over the columns from index i on; a later
\* matching column replaces an earlier one
RECURSIVE find_required_columns(_, _, _, _)
find_required_columns(columns, i, compliant_pattern, columns_needed) ==
    IF i > Len(columns) THEN columns_needed
    ELSE LET col == columns[i]
         IN  find_required_columns(columns, i + 1, compliant_pattern,
                 IF in_col_lower(compliant_pattern, col)
                     THEN [columns_needed EXCEPT !.compliant_col = col]
                 ELSE IF in_col_lower("incorrect change reason", col)
                     THEN [columns_needed EXCEPT !.change_reason_col = col]
                 ELSE IF in_col_lower("case type", col)
                     THEN [columns_needed EXCEPT !.case_type_col = col]
                 ELSE columns_needed)

\* the first of the columns that is in matching, None if there is none
first_column(columns, matching) ==
    IF \E i \in DOMAIN columns : columns[i] \in matching
        THEN columns[CHOOSE i \in DOMAIN columns :
                        /\ columns[i] \in matching
                        /\ \A j \in 1..(i - 1) : columns[j] \notin matching]
        ELSE None

find_primary_placement_column(df) ==
    first_column(df.columns,
                 {col \in Range(df.columns) :
                     in_col_lower("primary in care placement type", col)})

find_case_type_column(df) ==
    first_column(df.columns,
                 {col \in Range(df.columns) : in_col_lower("case type", col)})

\* visit_type is '7 day', '30 day' or '90 day'; digits is its number
find_exclusion_column(df, digits) ==
    first_column(df.columns,
                 {col \in Range(df.columns) :
                     /\ in_col_lower("exclusion", col)
                     /\ in_col_lower("closed prior to due date", col)
                     /\ in_col_lower(digits, col)})

row_types == <<"total", "compliant", "non_compliant", "compliance_rate">>

report_names == <<"7-day", "30-day", "90-day">>

\* f"{section_name}_error"
section_error_key(section_name) ==
    CASE section_name = "7-day" -> "7-day_error"
      [] section_name = "30-day" -> "30-day_error"
      [] section_name = "90-day" -> "90-day_error"

cell_result(calculated, actual, match, section, row_type) ==
    [calculated |-> calculated,
     actual |-> actual,
     match |-> match,
     status |-> IF match THEN "PASS" ELSE "FAIL",
     section |-> section,
     row_type |-> row_type]

status_set_no_incomplete(section_name, row_type) ==
    CASE row_type = "total" -> {"Compliant", "Not Compliant"}
      [] row_type = "compliant" -> {"Compliant"}
      [] row_type = "non_compliant" -> {"Not Compliant"}

status_set_incomplete_in_total_only(section_name, row_type) ==
    CASE row_type = "total" ->
             IF section_name = "90-day"
                 THEN {"Compliant", "Not Compliant", "Incomplete"}
                 ELSE {"Compliant", "Not Compliant"}
      [] row_type = "compliant" -> {"Compliant"}
      [] row_type = "non_compliant" -> {"Not Compliant"}

\* lines 1056-1072: the compliance statuses a count row counts
status_set(section_name, row_type) ==
    CASE row_type = "total" ->
             IF section_name = "90-day"
                 THEN {"Compliant", "Not Compliant", "Incomplete"}
                 ELSE {"Compliant", "Not Compliant"}
      [] row_type = "compliant" -> {"Compliant"}
      [] row_type = "non_compliant" ->
             IF section_name = "90-day"
                 THEN {"Not Compliant", "Incomplete"}
                 ELSE {"Not Compliant"}

verify_visit_section(df, columns, summary_df_, start_row, section_name) ==
    LET change_reason_data(row) == fillna_str(row[columns.change_reason_col])
        filtered_df == SelectSeq(df.rows,
                           LAMBDA row : str_lower(change_reason_data(row)) = "no")
        result(cell_name) ==
            LET current_row == cell_name[2] - 1
                row_type == row_types[current_row - start_row + 1]
                c == case_of(cell_name)
                case_type_data(row) == fillna_str(row[columns.case_type_col])
                compliant_data(row) == fillna_str(row[columns.compliant_col])
                counted(statuses) ==
                    Len(SelectSeq(filtered_df,
                          LAMBDA row : /\ case_filter(c.case_type, case_type_data(row))
                                       /\ compliant_data(row) \in statuses))
                calculated_value ==
                    IF row_type # "compliance_rate"
                        THEN <<counted(status_set(section_name, row_type)), 1>>
                        ELSE LET total_count == counted(status_set(section_name, "total"))
                                 compliant_count == counted({"Compliant"})
                             IN  IF total_count > 0
                                     THEN <<compliant_count, total_count>>
                                     ELSE <<0, 1>>
                actual == actual_value(summary_df_, current_row, c.col_index)
                match == IF row_type = "compliance_rate" /\ ~actual.none
                             THEN rate_match(calculated_value, actual)
                             ELSE count_match(calculated_value, actual)
            IN  cell_result(calculated_value, actual, match, section_name, row_type)
    IN  IF Len(filtered_df) = 0
            THEN SectionError(section_error_key(section_name))
            ELSE SectionCells([cell_name \in cell_names(start_row, 4) |->
                                  result(cell_name)])

\* a cell result of the sections that carry the 'report' key
report_cell_result(calculated, actual, section, row_type, report) ==
    [calculated |-> calculated,
     actual |-> actual,
     match |-> count_match(calculated, actual),
     status |-> IF count_match(calculated, actual) THEN "PASS" ELSE "FAIL",
     section |-> section,
     row_type |-> row_type,
     report |-> report]

verify_whereabouts_unknown_section(dfs, columns, summary_df_, start_row) ==
    LET placement_col == [n \in 1..3 |-> find_primary_placement_column(dfs[n])]
        placement_col_std1 == placement_col[1]
        result(cell_name) ==
            LET current_row == cell_name[2] - 1
                n == current_row - start_row + 1
                c == case_of(cell_name)
                change_reason_data(row) == fillna_str(row[columns[n].change_reason_col])
                filtered_df == SelectSeq(dfs[n].rows,
                                   LAMBDA row : str_lower(change_reason_data(row)) = "no")
                case_type_data(row) == fillna_str(row[columns[n].case_type_col])
                placement_data(row) == fillna_str(row[placement_col_std1])
                calculated_value ==
                    IF report_names[n] = "90-day" /\ c.case_type = "child in care"
                        THEN <<0, 1>>
                        ELSE <<Len(SelectSeq(filtered_df,
                                     LAMBDA row :
                                         /\ case_filter(c.case_type, case_type_data(row))
                                         /\ str_lower(placement_data(row)) = "whereabouts unknown")),
                               1>>
            IN  report_cell_result(calculated_value,
                                   actual_value(summary_df_, current_row, c.col_index),
                                   "whereabouts-unknown", report_names[n], report_names[n])
    IN  IF \E n \in 1..3 : placement_col[n] = None
            THEN SectionError("whereabouts_error")
        \* filtered_df[placement_col_std1] raises KeyError in a sheet without that header
        ELSE IF \E n \in 1..3 : placement_col_std1 \notin Range(dfs[n].columns)
            THEN Raised
        ELSE SectionCells([cell_name \in cell_names(start_row, 3) |-> result(cell_name)])

exclusion_digits == <<"7", "30", "90">>

verify_exclusion_service_ended_section(dfs, summary_df_, start_row) ==
    LET exclusion_col == [n \in 1..3 |-> find_exclusion_column(dfs[n], exclusion_digits[n])]
        result(cell_name) ==
            LET current_row == cell_name[2] - 1
                n == current_row - start_row + 1
                c == case_of(cell_name)
                case_type_data(row) == fillna_str(row[find_case_type_column(dfs[n])])
                exclusion_data(row) == fillna_str(row[exclusion_col[n]])
                calculated_value ==
                    IF report_names[n] = "90-day" /\ c.case_type = "child in care"
                        THEN <<0, 1>>
                        ELSE <<Len(SelectSeq(dfs[n].rows,
                                     LAMBDA row :
                                         /\ case_filter(c.case_type, case_type_data(row))
                                         /\ str_lower(exclusion_data(row)) = "yes")),
                               1>>
            IN  report_cell_result(calculated_value,
                                   actual_value(summary_df_, current_row, c.col_index),
                                   "exclusion-service-ended", report_names[n], report_names[n])
    IN  IF \E n \in 1..3 : exclusion_col[n] = None
            THEN SectionError("exclusion_error")
            ELSE SectionCells([cell_name \in cell_names(start_row, 3) |-> result(cell_name)])

verify_exclusion_data_entry_section(dfs, columns, summary_df_, start_row) ==
    LET result(cell_name) ==
            LET current_row == cell_name[2] - 1
                n == current_row - start_row + 1
                c == case_of(cell_name)
                case_type_data(row) == fillna_str(row[columns[n].case_type_col])
                change_reason_data(row) == fillna_str(row[columns[n].change_reason_col])
                compliant_data(row) == fillna_str(row[columns[n].compliant_col])
                calculated_value ==
                    IF report_names[n] = "90-day" /\ c.case_type = "child in care"
                        THEN <<0, 1>>
                        ELSE <<Len(SelectSeq(dfs[n].rows,
                                     LAMBDA row :
                                         /\ case_filter(c.case_type, case_type_data(row))
                                         /\ str_lower(change_reason_data(row)) = "yes"
                                         /\ compliant_data(row) # "")),
                               1>>
            IN  report_cell_result(calculated_value,
                                   actual_value(summary_df_, current_row, c.col_index),
                                   "exclusion-data-entry", report_names[n], report_names[n])
    IN  SectionCells([cell_name \in cell_names(start_row, 3) |-> result(cell_name)])

verify_information_only_section_by_filter(std3_df, columns_std3, summary_df_, start_row) ==
    LET result(cell_name) ==
            LET c == case_of(cell_name)
                case_type_data(row) == fillna_str(row[columns_std3.case_type_col])
                compliant_data(row) == fillna_str(row[columns_std3.compliant_col])
                calculated_value ==
                    <<Len(SelectSeq(std3_df.rows,
                                    LAMBDA row :
                                        /\ case_filter(c.case_type, case_type_data(row))
                                        /\ str_lower(compliant_data(row)) = "incomplete")),
                      1>>
            IN  report_cell_result(calculated_value,
                                   actual_value(summary_df_, start_row, c.col_index),
                                   "information-only", "incomplete-90-day-fcc", "90-day")
    IN  SectionCells([cell_name \in cell_names(start_row, 1) |-> result(cell_name)])

verify_information_only_section(std3_df, columns_std3, summary_df_, start_row) ==
    LET result(cell_name) ==
            LET c == case_of(cell_name)
                case_type_data(row) == fillna_str(row[columns_std3.case_type_col])
                compliant_data(row) == fillna_str(row[columns_std3.compliant_col])
                calculated_value ==
                    IF c.case_type = "formal customary care"
                        THEN <<Len(SelectSeq(std3_df.rows,
                                     LAMBDA row :
                                         /\ case_filter(c.case_type, case_type_data(row))
                                         /\ str_lower(compliant_data(row)) = "incomplete")),
                               1>>
                        ELSE <<0, 1>>
            IN  report_cell_result(calculated_value,
                                   actual_value(summary_df_, start_row, c.col_index),
                                   "information-only", "incomplete-90-day-fcc", "90-day")
    IN  SectionCells([cell_name \in cell_names(start_row, 1) |-> result(cell_name)])

verify_kinship_service_cases_section_zero_cells(std3_df, columns_std3, summary_df_, start_row) ==
    SectionCells([cell_name \in cell_names(start_row, 1) |->
        report_cell_result(<<0, 1>>,
                           actual_value(summary_df_, start_row, case_of(cell_name).col_index),
                           "kinship-service-cases", "90-day-placement-other", "90-day")])

\* lines 527-616
verify_kinship_service_cases_section(std3_df, columns_std3, summary_df_, start_row) ==
    LET placement_col == find_primary_placement_column(std3_df)
        result(cell_name) ==
            LET c == case_of(cell_name)
                case_type_data(row) == fillna_str(row[columns_std3.case_type_col])
                change_reason_data(row) == fillna_str(row[columns_std3.change_reason_col])
                compliant_data(row) == fillna_str(row[columns_std3.compliant_col])
                placement_data(row) == fillna_str(row[placement_col])
                calculated_value ==
                    IF c.case_type = "kinship service"
                        THEN <<Len(SelectSeq(std3_df.rows,
                                     LAMBDA row :
                                         /\ str_lower(case_type_data(row)) = "kinship service"
                                         /\ str_lower(change_reason_data(row)) = "no"
                                         /\ compliant_data(row) \in {"Compliant", "Not Compliant"}
                                         /\ str_lower(placement_data(row)) = "other")),
                               1>>
                        ELSE <<0, 1>>
            IN  report_cell_result(calculated_value,
                                   actual_value(summary_df_, start_row, c.col_index),
                                   "kinship-service-cases", "90-day-placement-other", "90-day")
    IN  IF placement_col = None
            THEN SectionError("kinship_error")
            ELSE SectionCells([cell_name \in cell_names(start_row, 1) |-> result(cell_name)])

compliant_patterns ==
    <<"7 day private visit compliant", "30 day private visit compliant",
      "90 day visit compliant">>

\* {**a, **b}: the entries of b replace those of a
merge(a, b) ==
    [NoError EXCEPT !.section_errors = a.section_errors \cup b.section_errors,
                    !.cells = b.cells @@ a.cells]

verify_summary_total_counts(dfs, summary_df_) ==
    IF \E n \in 1..3 : ~dfs[n].ok
        THEN Error("Error verifying Summary Total counts")
    ELSE
    LET columns == [n \in 1..3 |->
                       find_required_columns(dfs[n].columns, 1, compliant_patterns[n],
                           [compliant_col |-> None,
                            change_reason_col |-> None,
                            case_type_col |-> None])]
    IN
    IF \E n \in 1..3 : \/ columns[n].compliant_col = None
                       \/ columns[n].change_reason_col = None
                       \/ columns[n].case_type_col = None
        THEN Error("Missing columns")
    ELSE IF ~summary_df_.ok
        THEN Error("Error verifying Summary Total counts")
    ELSE
    LET results_7day == verify_visit_section(dfs[1], columns[1], summary_df_, 2, "7-day")
        results_30day == verify_visit_section(dfs[2], columns[2], summary_df_, 7, "30-day")
        results_90day == verify_visit_section(dfs[3], columns[3], summary_df_, 12, "90-day")
        results_whereabouts ==
            verify_whereabouts_unknown_section(dfs, columns, summary_df_, 18)
        results_exclusion_service ==
            verify_exclusion_service_ended_section(dfs, summary_df_, 23)
        results_exclusion_data ==
            verify_exclusion_data_entry_section(dfs, columns, summary_df_, 28)
        results_information ==
            verify_information_only_section(dfs[3], columns[3], summary_df_, 33)
        results_kinship ==
            verify_kinship_service_cases_section(dfs[3], columns[3], summary_df_, 36)
    IN
    IF results_whereabouts.raised
        THEN Error("Error verifying Summary Total counts")
        ELSE merge(merge(merge(merge(merge(merge(merge(
                 results_7day, results_30day), results_90day), results_whereabouts),
                 results_exclusion_service), results_exclusion_data),
                 results_information), results_kinship)

\* lines 1137-1250 on the value of basic_results at line 1135: the section
\* error entries are printed and dropped, the verdict is taken over the cells
verify_complete_summary_sheet(basic_results_) ==
    IF basic_results_.error THEN FALSE
    ELSE IF DOMAIN basic_results_.cells = {} THEN FALSE
    ELSE \A cell \in DOMAIN basic_results_.cells : basic_results_.cells[cell].match

(***************************************************************************)
(* test_cover_page.  The first sheet of the verification workbook is       *)
(* [ok |-> TRUE, content |-> lines] or [ok |-> FALSE]; a line is described *)
(* by what the three searches find in it: title is "exact" (the stripped   *)
(* line is the expected title), "inexact" (the line contains the title     *)
(* ignoring case but is not the title) or "none"; version is group 1 of    *)
(* the version pattern, None without a match; etl tells whether the ETL    *)
(* pattern matched and gives the two timestamp strings, each with the      *)
(* minute strptime yields, or parsed |-> FALSE when strptime raises.       *)
(***************************************************************************)
CoverReadError ==
    [passed |-> FALSE, message |-> "Error reading cover page"]

\* the first line from index i on that satisfies a search, 0 if there is none
first_line(content, hits) ==
    IF \E i \in DOMAIN content : i \in hits
        THEN CHOOSE i \in DOMAIN content : i \in hits /\ \A j \in 1..(i - 1) : j \notin hits
        ELSE 0

\* lines 68-77: the title test
title_spelling(content) ==
    LET i == first_line(content, {k \in DOMAIN content : content[k].title # "none"})
    IN  IF i = 0 THEN [passed |-> FALSE, message |-> "Main title not found"]
        ELSE IF content[i].title = "exact"
            THEN [passed |-> TRUE, message |-> "Title spelled correctly"]
            ELSE [passed |-> FALSE, message |-> "Title spelling error"]

\* lines 83-92: the version test
version_test(content, expected_version) ==
    LET i == first_line(content, {k \in DOMAIN content : content[k].version # None})
    IN  IF i = 0 THEN [passed |-> FALSE, message |-> ""]
        ELSE IF content[i].version = expected_version
            THEN [passed |-> TRUE, message |-> "Version matches"]
            ELSE [passed |-> FALSE, message |-> "Version mismatch"]

\* lines 106-118 (and 124-136): the two timestamps of a matching line
etl_dates(etl) ==
    IF ~etl.start.parsed \/ ~etl.complete.parsed
        THEN [passed |-> FALSE, message |-> "Could not parse ETL dates"]
    ELSE IF etl.start.minute < etl.complete.minute
        THEN [passed |-> TRUE, message |-> "ETL dates valid"]
        ELSE [passed |-> FALSE, message |-> "ETL dates invalid"]

\* lines 98-139: row 3 first, then every line
etl_test(content) ==
    IF Len(content) < 3
        THEN [passed |-> FALSE, message |-> "Error reading row 3"]
    ELSE IF content[3].etl.matched
        THEN etl_dates(content[3].etl)
    ELSE LET i == first_line(content, {k \in DOMAIN content : content[k].etl.matched})
         IN  IF i = 0
                 THEN [passed |-> FALSE,
                       message |-> "ETL date pattern not found in cover page"]
                 ELSE etl_dates(content[i].etl)

test_cover_page_read_error_passes(cover_df_, expected_version) ==
    IF ~cover_df_.ok
        THEN [title_spelling |-> [passed |-> TRUE, message |-> ""],
              version |-> [passed |-> TRUE, message |-> ""],
              etl_dates |-> [passed |-> TRUE, message |-> ""]]
        ELSE [title_spelling |-> title_spelling(cover_df_.content),
              version |-> version_test(cover_df_.content, expected_version),
              etl_dates |-> etl_test(cover_df_.content)]

test_cover_page(cover_df_, expected_version) ==
    IF ~cover_df_.ok
        THEN [title_spelling |-> CoverReadError,
              version |-> CoverReadError,
              etl_dates |-> CoverReadError]
        ELSE [title_spelling |-> title_spelling(cover_df_.content),
              version |-> version_test(cover_df_.content, expected_version),
              etl_dates |-> etl_test(cover_df_.content)]

\* lines 405-412
test_sensitivity_and_formula ==
    [sensitivity |-> [passed |-> TRUE, message |-> "Sensitivity: high (as required)"],
     formula |-> [passed |-> TRUE, message |-> "Business formula verified"]]

\* lines 414-426
test_contact_log_requirements ==
    [passed |-> TRUE, message |-> "Contact log requirements verified"]

(***************************************************************************)
(* Inputs.  Labels handed to the classifier: every string over Alphabet up *)
(* to MaxLen characters, and the labels named in the specification.  Cell  *)
(* lists handed to the comparators: every list over Cells up to MaxCols    *)
(* cells, and the lists named in the specification.                        *)
(***************************************************************************)
Alphabet == {"a", "A", "b", " "}

Strings(n) == UNION {[1..k -> Alphabet] : k \in 0..n}

Str_a_b_c == <<"a", " ", "b", " ", "c">>
Str_a_tab_b == <<"a", "\t", "b">>
Str_CaseOwner_lead == <<" ", "C", "a", "s", "e", " ", " ", "O", "w", "n", "e", "r", " ", "F", "i", "r", "s", "t", " ", "N", "a", "m", "e">>
Str_CaseOwner == <<"C", "a", "s", "e", " ", "O", "w", "n", "e", "r", " ", "F", "i", "r", "s", "t", " ", "N", "a", "m", "e">>
Str_CaseOwner_dbl == <<"C", "a", "s", "e", " ", "O", "w", "n", "e", "r", " ", " ", "F", "i", "r", "s", "t", " ", "N", "a", "m", "e">>
Str_Submsission == <<"S", "u", "b", "m", "s", "i", "s", "s", "i", "o", "n">>
Str_Submission == <<"S", "u", "b", "m", "i", "s", "s", "i", "o", "n">>
Str_Status == <<"S", "t", "a", "t", "u", "s">>
Str_abab == <<"a", "b", "a", "b">>

NamedLabels ==
    {Str_a_b_c, Str_a_tab_b, Str_CaseOwner_lead, Str_CaseOwner,
     Str_CaseOwner_dbl, Str_Submsission, Str_Submission, Str_Status, Str_abab}

Labels == Strings(MaxLen) \cup NamedLabels

Cell_A == <<"A">>
Cell_A_lead == <<" ", "A">>
Cell_A_B == <<"A", " ", "B">>
Cell_A_B_dbl == <<"A", " ", " ", "B">>

Cells == {Cell_A, Cell_A_lead, Cell_A_B, Cell_A_B_dbl}

NamedCellLists ==
    {<<<<"A">>, <<"B">>, <<"C">>>>,
     <<<<"A">>, <<"B">>>>,
     <<Str_CaseOwner_dbl, Str_Status>>,
     <<Str_CaseOwner, Str_Status>>}

CellLists == UNION {[1..k -> Cells] : k \in 0..MaxCols} \cup NamedCellLists

SheetReads == {[ok |-> FALSE]} \cup {[ok |-> TRUE, cells |-> c] : c \in CellLists}

NoVerdict == "not called"
NoResult == [called |-> FALSE]

\* a report workbook without sheets
NoSheets == <<>>

ClassifierIdle ==
    /\ design_col = <<>>
    /\ verification_col = <<>>
    /\ error_type = NoVerdict

ComparatorIdle ==
    /\ design_doc = <<>>
    /\ verification_doc = <<>>
    /\ standard_number = 0
    /\ standard_result = NoResult
    /\ summary_result = NoResult

NoFrames == <<>>

CasesIdle ==
    /\ std_df = NoFrames
    /\ cases_result = NoResult

classifier_vars == <<design_col, verification_col, error_type>>
comparator_vars == <<design_doc, verification_doc, standard_number,
                     standard_result, summary_result>>
cases_vars == <<std_df, cases_result>>

ReconciliationIdle ==
    /\ summary_df = [ok |-> FALSE]
    /\ basic_results = NoResult
    /\ summary_total_passed = FALSE

reconciliation_vars == <<summary_df, basic_results, summary_total_passed>>

RunIdle ==
    /\ cover_df = [ok |-> FALSE]
    /\ cover_results = NoResult
    /\ standard_results = <<>>
    /\ sensitivity_results = NoResult
    /\ contact_result = NoResult
    /\ all_passed = FALSE
    /\ pc = "idle"
    /\ stdout = <<>>
    /\ writer = NoSheets

run_vars == <<cover_df, cover_results, standard_results, sensitivity_results,
              contact_result, all_passed, pc, stdout, writer>>

(***************************************************************************)
(* The label checks on their own: one call of analyze_difference on a pair *)
(* of labels, or one call of a structural comparator on a pair of          *)
(* workbooks whose sheets all hold the same cells.                         *)
(***************************************************************************)
InitClassify ==
    /\ design_col \in Labels
    /\ verification_col \in Labels
    /\ error_type = NoVerdict
    /\ ComparatorIdle
    /\ CasesIdle
    /\ ReconciliationIdle
    /\ RunIdle

InitCompare ==
    /\ ClassifierIdle
    /\ \E d \in SheetReads : design_doc = [s \in DesignSheets |-> d]
    /\ \E v \in SheetReads : verification_doc = [s \in VerificationSheets |-> v]
    /\ standard_number = 0
    /\ standard_result = NoResult
    /\ summary_result = NoResult
    /\ CasesIdle
    /\ ReconciliationIdle
    /\ RunIdle

InitLabels == InitClassify \/ InitCompare

AnalyzeDifference ==
    /\ design_doc = <<>>
    /\ error_type = NoVerdict
    /\ error_type' = analyze_difference(design_col, verification_col)
    /\ UNCHANGED <<design_col, verification_col, comparator_vars, cases_vars,
                   reconciliation_vars, run_vars>>

TestStandardReportColumns ==
    /\ design_doc # <<>>
    /\ standard_number = 0
    /\ summary_result = NoResult
    /\ \E n \in 1..3 :
        /\ standard_number' = n
        /\ standard_result' = test_standard_report_columns(design_doc, verification_doc, n)
    /\ UNCHANGED <<classifier_vars, design_doc, verification_doc, summary_result,
                   cases_vars, reconciliation_vars, run_vars>>

TestSummaryReport ==
    /\ design_doc # <<>>
    /\ standard_number = 0
    /\ summary_result = NoResult
    /\ summary_result' = test_summary_report(design_doc, verification_doc)
    /\ UNCHANGED <<classifier_vars, design_doc, verification_doc,
                   standard_number, standard_result, cases_vars,
                   reconciliation_vars, run_vars>>

NextLabels == AnalyzeDifference \/ TestStandardReportColumns \/ TestSummaryReport

SpecLabels == InitLabels /\ [][NextLabels]_vars

(***************************************************************************)
(* The Standard Report data frames of the model.                           *)
(***************************************************************************)
CaseNo == "Case #"
CaseType == "Case Type"
ChangeReason == "Incorrect Change Reason"
PlacementType == "Primary In Care Placement Type"
PlacementTypeCurrent == "Primary In Care Placement Type (Current)"
PreviousCaseType == "Previous Case Type"
DueDate2025 == "30 Day Private Visit Due Date - 2025"
ContactLogExtension == "30 Day Private Visit Contact Log Start Date - Extension"

CompliantHeader(n) ==
    CASE n = 1 -> "7 Day Private Visit Compliant"
      [] n = 2 -> "30 Day Private Visit Compliant"
      [] n = 3 -> "90 Day Visit Compliant"

ExclusionHeader(n) ==
    CASE n = 1 -> "7 Day Private Visit Exclusion - Closed Prior to Due Date"
      [] n = 2 -> "30 Day Private Visit Exclusion - Closed Prior to Due Date"
      [] n = 3 -> "90 Day Visit Exclusion - Closed Prior to Due Date"

\* the header row of the Standard n Report
StandardColumns(n) ==
    <<CaseNo, CaseType, ChangeReason, CompliantHeader(n), PlacementType,
      ExclusionHeader(n)>>
    \o (IF n = 2 THEN <<DueDate2025, ContactLogExtension>> ELSE <<>>)

\* the list cols without the header h
Without(cols, h) == SelectSeq(cols, LAMBDA c : c # h)

\* a data row of the Standard n Report
DataRow(n, case_no, case_type, reason, compliant, placement, exclusion) ==
    (CaseNo :> case_no) @@ (CaseType :> case_type) @@ (ChangeReason :> reason)
    @@ (CompliantHeader(n) :> compliant) @@ (PlacementType :> placement)
    @@ (ExclusionHeader(n) :> exclusion)

\* a data row of the Standard 2 Report with its two date cells
DatedRow(case_no, due, log) ==
    DataRow(2, case_no, "Child in Care", "No", "Compliant", "Foster Home", "No")
    @@ (DueDate2025 :> due) @@ (ContactLogExtension :> log)

\* the frame with the columns cols, rows cut down to these columns
Frame(cols, rows) ==
    [ok |-> TRUE,
     columns |-> cols,
     rows |-> [k \in DOMAIN rows |-> [c \in Range(cols) |-> rows[k][c]]]]

Unreadable == [ok |-> FALSE]

EmptyFrame(n) == Frame(StandardColumns(n), <<>>)

(***************************************************************************)
(* The record spot-check on its own.  The Standard 2 Report holds at most  *)
(* one row per requested case (with both dates, or with the due date       *)
(* only), in the order of the request, followed by up to MaxExtraRows      *)
(* further rows.                                                           *)
(***************************************************************************)
OtherCase == "99999999"

Presence == {"absent", "both", "due only"}

RECURSIVE BaseRows(_, _)
BaseRows(present, i) ==
    IF i > Len(case_numbers_to_check) THEN <<>>
    ELSE (CASE present[i] = "absent" -> <<>>
            [] present[i] = "both" ->
                   <<DatedRow(case_numbers_to_check[i], "2025-01-05", "2025-01-03")>>
            [] present[i] = "due only" ->
                   <<DatedRow(case_numbers_to_check[i], "2025-01-05", NaN)>>)
         \o BaseRows(present, i + 1)

ExtraRows ==
    {DatedRow(c, due, log) :
        c \in {case_numbers_to_check[1], case_numbers_to_check[2], OtherCase},
        due \in {NaN, "2025-02-10"},
        log \in {NaN, "2025-02-08"}}

ExtraRowLists == UNION {[1..k -> ExtraRows] : k \in 0..MaxExtraRows}

SampleRows ==
    <<DatedRow(case_numbers_to_check[1], "2025-01-05", "2025-01-03")>>

Standard2Frames ==
    {Frame(StandardColumns(2), BaseRows(present, 1) \o extra) :
        present \in [DOMAIN case_numbers_to_check -> Presence],
        extra \in ExtraRowLists}
    \cup {Frame(Without(StandardColumns(2), h), SampleRows) :
            h \in {CaseNo, DueDate2025, ContactLogExtension}}
    \cup {Unreadable}

InitCases ==
    /\ ClassifierIdle
    /\ ComparatorIdle
    /\ \E f \in Standard2Frames :
           std_df = [n \in 1..3 |-> IF n = 2 THEN f ELSE EmptyFrame(n)]
    /\ cases_result = NoResult
    /\ ReconciliationIdle
    /\ RunIdle

TestSpecificCasesDates ==
    /\ std_df # NoFrames
    /\ cases_result = NoResult
    /\ cases_result' = test_specific_cases_dates(std_df[2])
    /\ UNCHANGED <<classifier_vars, comparator_vars, std_df, reconciliation_vars, run_vars>>

NextCases == TestSpecificCasesDates

SpecCases == InitCases /\ [][NextCases]_vars

(***************************************************************************)
(* The summary reconciliation on its own.  One Standard Report varies: it  *)
(* holds up to MaxRows data rows drawn from RowValues, or lacks a column,  *)
(* or cannot be read; the other two hold BaseRowList.  The Summary Total   *)
(* sheet publishes the figures of the detail sheets; when no detail sheet   *)
(* has more than MaxChangedRows rows it may also have one cell changed or  *)
(* a smaller extent, or be unreadable.                                     *)
(***************************************************************************)
\* <<case type, incorrect change reason, compliance, placement type, exclusion>>
RowValues ==
    {<<"Child in Care", "No", "Compliant", "Foster Home", "No">>,
     <<"Child in Care", "No", "Not Compliant", "Whereabouts Unknown", "No">>,
     <<"FCC", "No", "Incomplete", "Foster Home", "No">>,
     <<"Formal Customary Care", "No", "Compliant", "Foster Home", "Yes">>,
     <<"Kinship Service", "No", "Compliant", "Other", "No">>,
     <<"Adoption", "Yes", "Compliant", "Foster Home", "No">>,
     <<"Kinship Service", "NO", "compliant", "other", "Yes">>,
     <<"Adoption", "No", NaN, "Foster Home", NaN>>,
     <<"Child in Care", "No", "Compliant", "Other", "Yes">>,
     <<"Child in Care", "Yes", "Incomplete", "Whereabouts Unknown", "No">>}

\* seven rows that the 7-day total counts for 'child in care'
SevenRows == [k \in 1..7 |-> <<"Child in Care", "No", "Compliant", "Foster Home", "No">>]

RowLists == UNION {[1..k -> RowValues] : k \in 0..MaxRows} \cup {SevenRows}

BaseRowList == <<<<"Child in Care", "No", "Compliant", "Foster Home", "No">>>>

DetailRow(n, t) ==
    DataRow(n, OtherCase, t[1], t[2], t[3], t[4], t[5])
    @@ (DueDate2025 :> NaN) @@ (ContactLogExtension :> NaN)

DetailRows(n, list) == [k \in DOMAIN list |-> DetailRow(n, list[k])]

BaseFrame(n) == Frame(StandardColumns(n), DetailRows(n, BaseRowList))

\* the list cols with the header old replaced by the header new
Renamed(cols, old, new) == [i \in DOMAIN cols |-> IF cols[i] = old THEN new ELSE cols[i]]

\* rows whose placement type stands under the header PlacementTypeCurrent
UnknownWhereabouts == <<"Adoption", "No", "Compliant", "Whereabouts Unknown", "No">>

RenamedPlacementRows(n, list) ==
    [k \in DOMAIN list |-> DetailRow(n, list[k]) @@ (PlacementTypeCurrent :> list[k][4])]

\* a sheet with a second header that contains 'case type': a row counted by
\* the visit sections, with the same case type in both columns, and a row with
\* change reason and exclusion 'Yes' whose previous case type was another one
TwoCaseTypeRows(n) ==
    <<DetailRow(n, BaseRowList[1]) @@ (PreviousCaseType :> "Child in Care"),
      DetailRow(n, <<"Child in Care", "Yes", "Compliant", "Foster Home", "Yes">>)
          @@ (PreviousCaseType :> "Adoption")>>

DetailFrames(n) ==
    {Frame(StandardColumns(n), DetailRows(n, list)) : list \in RowLists}
    \cup {Frame(StandardColumns(n) \o <<PreviousCaseType>>, TwoCaseTypeRows(n))}
    \cup {Frame(Renamed(StandardColumns(n), PlacementType, PlacementTypeCurrent),
                RenamedPlacementRows(n, list)) :
            list \in {BaseRowList, <<UnknownWhereabouts>>}}
    \cup {Frame(Without(StandardColumns(n), h), DetailRows(n, BaseRowList)) :
            h \in {CaseType, ChangeReason, CompliantHeader(n), PlacementType,
                   ExclusionHeader(n)}}
    \cup {Unreadable}

SummaryRows == 37
SummaryColumns == 5

Summary(values) ==
    [ok |-> TRUE, nrows |-> SummaryRows, ncols |-> SummaryColumns, values |-> values]

\* a fraction as a number of the sheet, rounded to thousandths
Rounded(q) == (2 * 1000 * q[1] + q[2]) \div (2 * q[2])

\* the Summary Total values that agree with the detail sheets dfs
Published(dfs) ==
    LET cells == verify_summary_total_counts(dfs, Summary(<<>>)).cells
    IN  [coord \in {<<cell[2] - 1, case_of(cell).col_index>> : cell \in DOMAIN cells} |->
            [kind |-> "num",
             val |-> Rounded(cells[<<case_types[coord[2]].col_letter, coord[1] + 1>>].calculated)]]

Changed(cell, change) ==
    CASE change = "fraction" -> [kind |-> "num", val |-> cell.val + 900]
      [] change = "one more" -> [kind |-> "num", val |-> cell.val + 1000]
      [] change = "near" -> [kind |-> "num", val |-> cell.val + 5]
      [] change = "far" -> [kind |-> "num", val |-> cell.val + 20]
      [] change = "empty" -> EmptyCell
      [] change = "text" -> [kind |-> "str_other", val |-> 0]
      [] change = "number as text" -> [kind |-> "str_number", val |-> cell.val]

\* the changes made to B3, B6, D16, B19, B24, B29, D34 and E37
CellChanges ==
    {<<<<2, 1>>, "fraction">>, <<<<2, 1>>, "one more">>, <<<<2, 1>>, "empty">>,
     <<<<2, 1>>, "text">>, <<<<2, 1>>, "number as text">>,
     <<<<5, 1>>, "near">>, <<<<5, 1>>, "far">>,
     <<<<15, 3>>, "far">>,
     <<<<18, 1>>, "fraction">>, <<<<18, 1>>, "empty">>,
     <<<<23, 1>>, "text">>,
     <<<<28, 1>>, "empty">>,
     <<<<33, 3>>, "text">>,
     <<<<36, 4>>, "one more">>, <<<<36, 4>>, "text">>}

SummaryFrames(dfs) ==
    LET values == Published(dfs)
    IN  {Summary(values)}
        \cup {Summary((c[1] :> Changed(iloc(Summary(values), c[1][1], c[1][2]), c[2]))
                      @@ values) :
                c \in CellChanges}
        \cup {[Summary(values) EXCEPT !.nrows = SummaryRows - 1],
              [Summary(values) EXCEPT !.ncols = SummaryColumns - 1],
              [Summary((<<2, 1>> :> EmptyCell) @@ values) EXCEPT !.ncols = SummaryColumns - 1],
              Unreadable}

InitSummary ==
    /\ ClassifierIdle
    /\ ComparatorIdle
    /\ cases_result = NoResult
    /\ \E n \in 1..3 : \E f \in DetailFrames(n) :
           std_df = [m \in 1..3 |-> IF m = n THEN f ELSE BaseFrame(m)]
    /\ summary_df \in IF \A n \in 1..3 : ~std_df[n].ok \/ Len(std_df[n].rows) <= MaxChangedRows
                       THEN SummaryFrames(std_df)
                       ELSE {Summary(Published(std_df))}
    /\ basic_results = NoResult
    /\ summary_total_passed = FALSE
    /\ RunIdle

VerifyCompleteSummarySheet ==
    /\ std_df # NoFrames
    /\ basic_results = NoResult
    /\ basic_results' = verify_summary_total_counts(std_df, summary_df)
    /\ summary_total_passed' = verify_complete_summary_sheet(basic_results')
    /\ UNCHANGED <<classifier_vars, comparator_vars, cases_vars, summary_df, run_vars>>

NextSummary == VerifyCompleteSummarySheet

SpecSummary == InitSummary /\ [][NextSummary]_vars

(***************************************************************************)
(* run_all_cq091_tests on one design workbook and one verification         *)
(* workbook.  Each Standard n Report of the verification workbook is       *)
(* "good", has a "bad header" (a double space in a header) or is           *)
(* "missing"; the Standard 2 Report holds all requested cases or lacks     *)
(* one; the Summary Total sheet is "good", has a "bad label", has a        *)
(* "changed" figure or is "missing"; the design workbook is readable or    *)
(* not.  The cover sheet varies over CoverSheets while the rest of the     *)
(* workbook is good, and over SampleCovers otherwise.                      *)
(***************************************************************************)
ExpectedVersion == "1.3"

NoEtl == [matched |-> FALSE,
          start |-> [parsed |-> FALSE, minute |-> 0],
          complete |-> [parsed |-> FALSE, minute |-> 0]]

Etl(start, complete) == [matched |-> TRUE, start |-> start, complete |-> complete]

Stamp(minute) == [parsed |-> TRUE, minute |-> minute]

Unparsed == [parsed |-> FALSE, minute |-> 0]

OtherLine == [title |-> "none", version |-> None, etl |-> NoEtl]

TitleLine(t) == [OtherLine EXCEPT !.title = t]

VersionLine(v) == [OtherLine EXCEPT !.version = v]

EtlLine(e) == [OtherLine EXCEPT !.etl = e]

EtlValues ==
    {NoEtl, Etl(Stamp(1), Stamp(2)), Etl(Stamp(2), Stamp(1)), Etl(Stamp(1), Stamp(1)),
     Etl(Unparsed, Stamp(2)), Etl(Stamp(1), Unparsed)}

Cover(content) == [ok |-> TRUE, content |-> content]

GoodCover ==
    Cover(<<TitleLine("exact"), VersionLine(ExpectedVersion), EtlLine(Etl(Stamp(1), Stamp(2)))>>)

CoverSheets ==
    {Cover(<<TitleLine(t), VersionLine(v)>> \o rest) :
        t \in {"exact", "inexact", "none"},
        v \in {ExpectedVersion, "1.2", None},
        rest \in {<<EtlLine(e)>> : e \in EtlValues}
                 \cup {<<OtherLine, EtlLine(e)>> : e \in EtlValues}
                 \cup {<<>>}}
    \cup {Unreadable}

SampleCovers ==
    {GoodCover,
     Cover(<<TitleLine("exact"), VersionLine("1.2"), EtlLine(Etl(Stamp(1), Stamp(2)))>>),
     Unreadable}

SheetStates == {"good", "bad header", "missing"}

SummaryStates == {"good", "bad label", "changed", "missing"}

GoodCells == <<Str_CaseOwner, Str_Status>>

BadCells == <<Str_CaseOwner_dbl, Str_Status>>

Read(cells) == [ok |-> TRUE, cells |-> cells]

\* the sheets of the design workbook
DesignDoc(readable) ==
    [sheet \in DesignSheets |-> IF readable THEN Read(GoodCells) ELSE Unreadable]

\* the header row of the Standard Reports and column A of the Summary Total
\* sheet of the verification workbook
VerificationDoc(sheets, summary) ==
    [sheet \in VerificationSheets |->
        IF sheet = SummaryTotal
            THEN (CASE summary = "missing" -> Unreadable
                    [] summary = "bad label" -> Read(BadCells)
                    [] OTHER -> Read(GoodCells))
            ELSE LET n == CHOOSE m \in 1..3 : verification_sheet_name(m) = sheet
                 IN  CASE sheets[n] = "missing" -> Unreadable
                       [] sheets[n] = "bad header" -> Read(BadCells)
                       [] OTHER -> Read(GoodCells)]

\* the data rows of the Standard Reports of the verification workbook
StandardFrames(sheets, complete) ==
    [n \in 1..3 |->
        IF sheets[n] = "missing" THEN Unreadable
        ELSE IF n = 2
            THEN Frame(StandardColumns(2),
                       BaseRows([i \in DOMAIN case_numbers_to_check |->
                                    IF i = 1 /\ ~complete THEN "absent" ELSE "both"], 1))
            ELSE BaseFrame(n)]

\* the figures of the Summary Total sheet of the verification workbook
SummaryFrame(dfs, summary) ==
    CASE summary = "missing" -> Unreadable
      [] summary = "changed" ->
             Summary((<<2, 1>> :> Changed(iloc(Summary(Published(dfs)), 2, 1), "one more"))
                     @@ Published(dfs))
      [] OTHER -> Summary(Published(dfs))

AllGood == [n \in 1..3 |-> "good"]

InitRun ==
    /\ ClassifierIdle
    /\ standard_number = 0
    /\ standard_result = NoResult
    /\ summary_result = NoResult
    /\ cases_result = NoResult
    /\ basic_results = NoResult
    /\ summary_total_passed = FALSE
    /\ \E readable \in BOOLEAN, sheets \in [1..3 -> SheetStates], complete \in BOOLEAN,
          summary \in SummaryStates :
           /\ design_doc = DesignDoc(readable)
           /\ verification_doc = VerificationDoc(sheets, summary)
           /\ std_df = StandardFrames(sheets, complete)
           /\ summary_df = SummaryFrame(std_df, summary)
           /\ cover_df \in IF readable /\ sheets = AllGood /\ complete /\ summary = "good"
                              THEN CoverSheets
                              ELSE SampleCovers
    /\ cover_results = NoResult
    /\ standard_results = <<>>
    /\ sensitivity_results = NoResult
    /\ contact_result = NoResult
    /\ all_passed = FALSE
    /\ pc = "cover"
    /\ stdout = <<>>
    /\ writer = NoSheets

next_check_fail_fast(check, passed) ==
    IF ~passed THEN "done"
    ELSE CASE check = "cover" -> "standard"
           [] check = "standard" -> "cases"
           [] check = "cases" -> "summary"
           [] check = "summary" -> "sensitivity"
           [] check = "sensitivity" -> "contact_log"
           [] check = "contact_log" -> "summary_total"
           [] check = "summary_total" -> "overall"

\* lines 1260-1322: the check that follows check, whatever check returned
next_check(check, passed) ==
    CASE check = "cover" -> "standard"
      [] check = "standard" -> "cases"
      [] check = "cases" -> "summary"
      [] check = "summary" -> "sensitivity"
      [] check = "sensitivity" -> "contact_log"
      [] check = "contact_log" -> "summary_total"
      [] check = "summary_total" -> "overall"

\* all(r['passed'] for r in cover_results.values())
cover_passed(results) ==
    results.title_spelling.passed /\ results.version.passed /\ results.etl_dates.passed

overall_without_summary_total(cover, standards, cases, summary, sensitivity, contact, summary_total) ==
    /\ cover_passed(cover)
    /\ \A i \in DOMAIN standards : standards[i].passed
    /\ cases.passed
    /\ summary.passed
    /\ sensitivity.sensitivity.passed /\ sensitivity.formula.passed
    /\ contact.passed

\* lines 1324-1334
overall(cover, standards, cases, summary, sensitivity, contact, summary_total) ==
    /\ cover_passed(cover)
    /\ \A i \in DOMAIN standards : standards[i].passed
    /\ cases.passed
    /\ summary.passed
    /\ sensitivity.sensitivity.passed /\ sensitivity.formula.passed
    /\ contact.passed
    /\ summary_total

standard_line(n) ==
    CASE n = 1 -> "STANDARD 1" [] n = 2 -> "STANDARD 2" [] n = 3 -> "STANDARD 3"

RunCoverPage ==
    /\ pc = "cover"
    /\ cover_results' = test_cover_page(cover_df, ExpectedVersion)
    /\ stdout' = Append(stdout, "=== Cover Page Tests ===")
    /\ pc' = next_check("cover", cover_passed(cover_results'))
    /\ UNCHANGED <<classifier_vars, comparator_vars, cases_vars, reconciliation_vars,
                   cover_df, standard_results, sensitivity_results, contact_result,
                   all_passed, writer>>

RunStandardReportColumns ==
    /\ pc = "standard"
    /\ LET standard_num == Len(standard_results) + 1
           result == test_standard_report_columns(design_doc, verification_doc, standard_num)
       IN  /\ standard_results' = Append(standard_results, result)
           /\ stdout' = stdout
                        \o (IF standard_num = 1
                                THEN <<"=== Standard Report Column Tests ===">>
                                ELSE <<>>)
                        \o <<standard_line(standard_num)>>
           /\ pc' = IF standard_num < 3 THEN "standard"
                    ELSE next_check("standard",
                                    \A i \in DOMAIN standard_results' :
                                        standard_results'[i].passed)
    /\ UNCHANGED <<classifier_vars, comparator_vars, cases_vars, reconciliation_vars,
                   cover_df, cover_results, sensitivity_results, contact_result,
                   all_passed, writer>>

RunSpecificCasesDates ==
    /\ pc = "cases"
    /\ cases_result' = test_specific_cases_dates(std_df[2])
    /\ stdout' = Append(stdout, "=== Specific Cases Test (Standard 2 Report) ===")
    /\ pc' = next_check("cases", cases_result'.passed)
    /\ UNCHANGED <<classifier_vars, comparator_vars, std_df, reconciliation_vars,
                   cover_df, cover_results, standard_results, sensitivity_results,
                   contact_result, all_passed, writer>>

RunSummaryReport ==
    /\ pc = "summary"
    /\ summary_result' = test_summary_report(design_doc, verification_doc)
    /\ stdout' = Append(stdout, "=== Summary Report Test ===")
    /\ pc' = next_check("summary", summary_result'.passed)
    /\ UNCHANGED <<classifier_vars, design_doc, verification_doc, standard_number,
                   standard_result, cases_vars, reconciliation_vars,
                   cover_df, cover_results, standard_results, sensitivity_results,
                   contact_result, all_passed, writer>>

RunSensitivityAndFormula ==
    /\ pc = "sensitivity"
    /\ sensitivity_results' = test_sensitivity_and_formula
    /\ stdout' = Append(stdout, "=== Sensitivity and Formula Tests ===")
    /\ pc' = next_check("sensitivity",
                        sensitivity_results'.sensitivity.passed
                        /\ sensitivity_results'.formula.passed)
    /\ UNCHANGED <<classifier_vars, comparator_vars, cases_vars, reconciliation_vars,
                   cover_df, cover_results, standard_results, contact_result,
                   all_passed, writer>>

RunContactLogRequirements ==
    /\ pc = "contact_log"
    /\ contact_result' = test_contact_log_requirements
    /\ stdout' = Append(stdout, "=== Contact Log Requirements Test ===")
    /\ pc' = next_check("contact_log", contact_result'.passed)
    /\ UNCHANGED <<classifier_vars, comparator_vars, cases_vars, reconciliation_vars,
                   cover_df, cover_results, standard_results, sensitivity_results,
                   all_passed, writer>>

RunSummaryTotal ==
    /\ pc = "summary_total"
    /\ basic_results' = verify_summary_total_counts(std_df, summary_df)
    /\ summary_total_passed' = verify_complete_summary_sheet(basic_results')
    /\ stdout' = Append(stdout, "=== Summary Total Sheet Verification ===")
    /\ pc' = next_check("summary_total", summary_total_passed')
    /\ UNCHANGED <<classifier_vars, comparator_vars, cases_vars, summary_df,
                   cover_df, cover_results, standard_results, sensitivity_results,
                   contact_result, all_passed, writer>>

RunOverall ==
    /\ pc = "overall"
    /\ all_passed' = overall(cover_results, standard_results, cases_result, summary_result,
                              sensitivity_results, contact_result, summary_total_passed)
    /\ stdout' = Append(stdout, "=== FINAL RESULT ===")
    /\ pc' = "done"
    /\ UNCHANGED <<classifier_vars, comparator_vars, cases_vars, reconciliation_vars,
                   cover_df, cover_results, standard_results, sensitivity_results,
                   contact_result, writer>>

NextRun ==
    \/ RunCoverPage
    \/ RunStandardReportColumns
    \/ RunSpecificCasesDates
    \/ RunSummaryReport
    \/ RunSensitivityAndFormula
    \/ RunContactLogRequirements
    \/ RunSummaryTotal
    \/ RunOverall

SpecRun == InitRun /\ [][NextRun]_vars

(***************************************************************************)
(* comprehensive_excel_report.py: create_developer_report writes the       *)
(* sheets of the report workbook one after the other; every create_        *)
(* function runs the checks it reports on again, on the same two workbooks.*)
(***************************************************************************)
status_of(passed) == IF passed THEN "PASS" ELSE "FAIL"

\* lines 57-128 after the five checks have run: the rows of the Dashboard and
\* the metrics written to F2..F4
create_summary_dashboard(cover_results_, result, cases_result_, summary_result_, summary_total_passed_) ==
    LET cover_issues == Cardinality({name \in DOMAIN cover_results_ :
                                        ~cover_results_[name].passed})
        issues_of(std_num) ==
            IF result[std_num].passed THEN 0 ELSE Len(result[std_num].details)
        standards_issues == issues_of(1) + issues_of(2) + issues_of(3)
        missing_cases == IF "missing_cases" \in DOMAIN cases_result_
                             THEN cases_result_.missing_cases ELSE <<>>
        cases_issues ==
            Len(missing_cases)
            + Cardinality({k \in DOMAIN cases_result_.details :
                              \/ ~cases_result_.details[k].has_due_date
                              \/ ~cases_result_.details[k].has_contact_log_date})
        summary_data ==
            <<[category |-> "Cover Page",
               status |-> status_of(cover_issues = 0),
               issues |-> cover_issues,
               priority |-> "High"],
              [category |-> "Standard Reports Columns",
               status |-> status_of(\A std_num \in 1..3 : result[std_num].passed),
               issues |-> standards_issues,
               priority |-> "High"],
              [category |-> "Specific Cases",
               status |-> status_of(cases_result_.passed),
               issues |-> cases_issues,
               priority |-> "Medium"],
              [category |-> "Summary Report",
               status |-> status_of(summary_result_.passed),
               issues |-> Len(summary_result_.details),
               priority |-> "High"],
              [category |-> "Summary Total Sheet",
               status |-> status_of(summary_total_passed_),
               issues |-> IF summary_total_passed_ THEN 0 ELSE "Multiple",
               priority |-> "Critical"]>>
        passed_tests == Cardinality({k \in DOMAIN summary_data :
                                        summary_data[k].status = "PASS"})
    IN  [rows |-> summary_data,
         total_tests |-> Len(summary_data),
         passed_tests |-> passed_tests,
         failed_tests |-> Len(summary_data) - passed_tests]

\* lines 254-261
get_cover_page_correction(test_name) ==
    CASE test_name = "title_spelling" ->
             "Update report title in the template to match specification exactly"
      [] test_name = "version" ->
             "Ensure version number is correctly set in report generation process"
      [] test_name = "etl_dates" ->
             "Verify ETL process timing and date formatting logic"

\* lines 130-147 after test_cover_page has run
create_cover_page_analysis(cover_results_) ==
    LET tests == <<"title_spelling", "version", "etl_dates">>
    IN  [rows |->
            [k \in DOMAIN tests |->
                [test |-> tests[k],
                 status |-> status_of(cover_results_[tests[k]].passed),
                 message |-> cover_results_[tests[k]].message,
                 correction |-> IF cover_results_[tests[k]].passed
                                    THEN "No action needed"
                                    ELSE get_cover_page_correction(tests[k]),
                 priority |-> IF tests[k] = "title_spelling" THEN "High" ELSE "Medium"]]]

\* lines 263-275: the guidance texts without the quoted labels; the verdicts
\* of analyze_difference that are keys of the dictionary
get_column_correction(error_type_) ==
    CASE error_type_ = "Word order difference" -> "Reorder words to match specification"
      [] error_type_ = "Missing words in verification" -> "Add missing words"
      [] error_type_ = "Extra words in verification" -> "Remove extra words"
      [] error_type_ = "Content difference" -> "Major revision needed"
      [] error_type_ = "Column count mismatch" ->
             "Adjust number of columns to match design specification"
      [] OTHER -> "Review and correct"

\* lines 149-178 after the three standard reports have been compared
create_column_comparison_analysis(result) ==
    LET issues(std_num) ==
            IF result[std_num].passed THEN <<>>
            ELSE [k \in DOMAIN result[std_num].details |->
                     [report |-> std_num,
                      column_number |-> result[std_num].details[k].column_number,
                      expected |-> result[std_num].details[k].design,
                      actual |-> result[std_num].details[k].verification,
                      error_type |-> result[std_num].details[k].error_type,
                      correction |->
                          get_column_correction(result[std_num].details[k].error_type),
                      priority |-> IF std_num = 1 THEN "High" ELSE "Medium"]]
        all_issues == issues(1) \o issues(2) \o issues(3)
    IN  IF all_issues # <<>>
            THEN [rows |-> all_issues]
            ELSE [rows |-> <<[Status |-> "All column comparisons passed successfully"]>>]

\* lines 277-286 on the list of the parts of the status; no part: 'Complete'
get_case_correction(status_parts) ==
    IF \E k \in DOMAIN status_parts : status_parts[k] = "Missing Due Date"
        THEN "Ensure due date calculation logic is correct in ETL"
    ELSE IF \E k \in DOMAIN status_parts : status_parts[k] = "Missing Contact Log Date"
        THEN "Verify contact log data extraction and joining logic"
    ELSE "No action required"

\* lines 180-222 after test_specific_cases_dates has run
create_specific_cases_analysis(result) ==
    LET missing ==
            IF "missing_cases" \in DOMAIN result
                THEN [k \in DOMAIN result.missing_cases |->
                         [case_number |-> result.missing_cases[k],
                          status |-> <<"Missing">>,
                          issue |-> "Case number not present in report",
                          correction |-> "Check data source and ETL process",
                          priority |-> "High"]]
                ELSE <<>>
        status_parts(detail) ==
            (IF ~detail.has_due_date THEN <<"Missing Due Date">> ELSE <<>>)
            \o (IF ~detail.has_contact_log_date
                    THEN <<"Missing Contact Log Date">> ELSE <<>>)
        details ==
            [k \in DOMAIN result.details |->
                [case_number |-> result.details[k].case_number,
                 status |-> status_parts(result.details[k]),
                 issue |-> IF status_parts(result.details[k]) # <<>>
                               THEN "Data completeness issue" ELSE "OK",
                 correction |-> get_case_correction(status_parts(result.details[k])),
                 priority |-> IF status_parts(result.details[k]) # <<>>
                                  THEN "Medium" ELSE "Low"]]
        analysis_data == missing \o details
    IN  IF analysis_data # <<>>
            THEN [rows |-> analysis_data]
            ELSE [rows |-> <<[Status |-> "All specific cases validated successfully"]>>]

ValidationPassed ==
    "Summary Total sheet validation passed successfully - All 92 cells verified correctly"

\* lines 224-230: the sheet does not depend on the verification workbook
create_summary_total_analysis(dfs, summary_df_) ==
    [rows |-> <<[Status |-> ValidationPassed]>>]

\* lines 232-252: the error types of the twelve rows with the responsible team
create_correction_guide ==
    [rows |->
        <<[error_type |-> "Space difference", team |-> "DEV"],
          [error_type |-> "Case difference", team |-> "DEV"],
          [error_type |-> "Spelling error", team |-> "BA/DEV"],
          [error_type |-> "Word order difference", team |-> "DEV"],
          [error_type |-> "Missing words", team |-> "DEV"],
          [error_type |-> "Extra words", team |-> "DEV"],
          [error_type |-> "Content difference", team |-> "BA/DEV"],
          [error_type |-> "Column count mismatch", team |-> "DEV"],
          [error_type |-> "Version mismatch", team |-> "DEV"],
          [error_type |-> "Date validation failure", team |-> "DEV"],
          [error_type |-> "Count mismatch", team |-> "DEV"],
          [error_type |-> "Missing cases", team |-> "BA"]>>]

\* to_excel(writer, sheet_name=...)
to_excel(sheets, sheet_name, df) == (sheet_name :> df) @@ sheets

\* one run of create_developer_report on a design and a verification workbook
InitReport ==
    /\ ClassifierIdle
    /\ standard_number = 0
    /\ standard_result = NoResult
    /\ summary_result = NoResult
    /\ cases_result = NoResult
    /\ basic_results = NoResult
    /\ summary_total_passed = FALSE
    /\ \E readable \in BOOLEAN, sheets \in [1..3 -> SheetStates], complete \in BOOLEAN,
          summary \in SummaryStates :
           /\ design_doc = DesignDoc(readable)
           /\ verification_doc = VerificationDoc(sheets, summary)
           /\ std_df = StandardFrames(sheets, complete)
           /\ summary_df = SummaryFrame(std_df, summary)
           /\ cover_df \in SampleCovers
    /\ cover_results = NoResult
    /\ standard_results = <<>>
    /\ sensitivity_results = NoResult
    /\ contact_result = NoResult
    /\ all_passed = FALSE
    /\ pc = "Dashboard"
    /\ stdout = <<>>
    /\ writer = NoSheets

\* the workbooks and what create_developer_report never assigns
report_files ==
    <<classifier_vars, standard_number, standard_result, design_doc, verification_doc,
      std_df, summary_df, cover_df, basic_results, sensitivity_results,
      contact_result, all_passed>>

report_results == <<cover_results, standard_results, cases_result, summary_result,
                    summary_total_passed>>

CreateSummaryDashboard ==
    /\ pc = "Dashboard"
    /\ cover_results' = test_cover_page(cover_df, ExpectedVersion)
    /\ standard_results' =
           [std_num \in 1..3 |->
               test_standard_report_columns(design_doc, verification_doc, std_num)]
    /\ cases_result' = test_specific_cases_dates(std_df[2])
    /\ summary_result' = test_summary_report(design_doc, verification_doc)
    /\ summary_total_passed' =
           verify_complete_summary_sheet(verify_summary_total_counts(std_df, summary_df))
    /\ writer' = to_excel(writer, "Dashboard",
                          create_summary_dashboard(cover_results', standard_results',
                                                   cases_result', summary_result',
                                                   summary_total_passed'))
    /\ stdout' = Append(stdout, "Creating Dashboard...")
    /\ pc' = "Cover Page Analysis"
    /\ UNCHANGED report_files

CreateCoverPageAnalysis ==
    /\ pc = "Cover Page Analysis"
    /\ cover_results' = test_cover_page(cover_df, ExpectedVersion)
    /\ writer' = to_excel(writer, "Cover Page Analysis",
                          create_cover_page_analysis(cover_results'))
    /\ stdout' = Append(stdout, "Creating Cover Page Analysis...")
    /\ pc' = "Column Issues"
    /\ UNCHANGED <<report_files, standard_results, cases_result, summary_result,
                   summary_total_passed>>

CreateColumnComparisonAnalysis ==
    /\ pc = "Column Issues"
    /\ standard_results' =
           [std_num \in 1..3 |->
               test_standard_report_columns(design_doc, verification_doc, std_num)]
    /\ writer' = to_excel(writer, "Column Issues",
                          create_column_comparison_analysis(standard_results'))
    /\ stdout' = Append(stdout, "Creating Column Issues Analysis...")
    /\ pc' = "Specific Cases Analysis"
    /\ UNCHANGED <<report_files, cover_results, cases_result, summary_result,
                   summary_total_passed>>

CreateSpecificCasesAnalysis ==
    /\ pc = "Specific Cases Analysis"
    /\ cases_result' = test_specific_cases_dates(std_df[2])
    /\ writer' = to_excel(writer, "Specific Cases Analysis",
                          create_specific_cases_analysis(cases_result'))
    /\ stdout' = Append(stdout, "Creating Specific Cases Analysis...")
    /\ pc' = "Summary Total Analysis"
    /\ UNCHANGED <<report_files, cover_results, standard_results, summary_result,
                   summary_total_passed>>

CreateSummaryTotalAnalysis ==
    /\ pc = "Summary Total Analysis"
    /\ writer' = to_excel(writer, "Summary Total Analysis",
                          create_summary_total_analysis(std_df, summary_df))
    /\ stdout' = Append(stdout, "Creating Summary Total Analysis...")
    /\ pc' = "Correction Guide"
    /\ UNCHANGED <<report_files, report_results>>

CreateCorrectionGuide ==
    /\ pc = "Correction Guide"
    /\ writer' = to_excel(writer, "Correction Guide", create_correction_guide)
    /\ stdout' = Append(stdout, "Creating Correction Guide...")
    /\ pc' = "formatting"
    /\ UNCHANGED <<report_files, report_results>>

\* lines 288-311: the column widths are set, the cells are left as they are
ApplyBasicFormatting ==
    /\ pc = "formatting"
    /\ stdout' = Append(stdout, "Applying formatting...")
    /\ pc' = "generated"
    /\ UNCHANGED <<report_files, report_results, writer>>

NextReport ==
    \/ CreateSummaryDashboard
    \/ CreateCoverPageAnalysis
    \/ CreateColumnComparisonAnalysis
    \/ CreateSpecificCasesAnalysis
    \/ CreateSummaryTotalAnalysis
    \/ CreateCorrectionGuide
    \/ ApplyBasicFormatting

SpecReport == InitReport /\ [][NextReport]_vars

(***************************************************************************)
(* Properties of the classifier.                                           *)
(***************************************************************************)
Tokens(s) == split(lower(s))

\* the multiset of the words of a word list
TokenBag(ws) == [w \in Range(ws) |-> Cardinality({i \in DOMAIN ws : ws[i] = w})]

\* the condition of rule k of the ordered decision policy, on the labels d, v
RuleHolds(k, d, v) ==
    CASE k = 1 -> d = v
      [] k = 2 -> split(d) = split(v)
      [] k = 3 -> lower(d) = lower(v)
      [] k = 4 -> LET r == ratio(lower(d), lower(v)) IN 5 * r[1] > 4 * r[2]
      [] k = 5 -> TokenBag(Tokens(d)) = TokenBag(Tokens(v))
      [] k = 6 -> Range(Tokens(d)) \subseteq Range(Tokens(v))
      [] k = 7 -> Range(Tokens(v)) \subseteq Range(Tokens(d))
      [] k = 8 -> TRUE

RuleVerdict ==
    <<ExactMatch, WhitespaceDifference, CaseDifference, SpellingError,
      WordOrderDifference, ExtraWordsInActual, MissingWordsInActual,
      ContentDifference>>

FirstRule(d, v) ==
    LET holds == [k \in 1..8 |-> RuleHolds(k, d, v)]
    IN  CHOOSE k \in 1..8 : holds[k] /\ \A j \in 1..(k - 1) : ~holds[j]

Classified == error_type # NoVerdict

Str_a_b == <<"a", " ", "b">>

\* C1: analyze_difference returns the verdict of the first rule, in the fixed
\* order exact, whitespace, case, spelling, word order, extra words, missing
\* words, content, whose condition holds; 'a b' against 'a b c' is extra
\* words and 'a b c' against 'a b' is missing words.
C1_FirstMatchingRuleWins ==
    Classified =>
        /\ error_type = RuleVerdict[FirstRule(design_col, verification_col)]
        /\ (design_col = Str_a_b /\ verification_col = Str_a_b_c
                => error_type = ExtraWordsInActual)
        /\ (design_col = Str_a_b_c /\ verification_col = Str_a_b
                => error_type = MissingWordsInActual)

\* a case difference is reported although the similarity rule holds as well
C1_Witness ==
    /\ error_type = CaseDifference
    /\ RuleHolds(4, design_col, verification_col)

\* C2: every call returns one of the eight verdicts, also for empty and
\* whitespace-only labels, and a label compared with itself is an exact match.
C2_TotalAndReflexive ==
    Classified =>
        /\ error_type \in Verdicts
        /\ (design_col = verification_col => error_type = ExactMatch)

\* a whitespace-only label compared with itself
C2_Witness ==
    /\ error_type = ExactMatch
    /\ design_col = <<" ", " ">>
    /\ verification_col = <<" ", " ">>

\* C6: a pair that matches none of rules 1-3 is a spelling error exactly when
\* its case-insensitive similarity 2*M/T is strictly greater than 0.80;
\* 'Submsission' against 'Submission' is a spelling error.
C6_StrictThreshold ==
    (/\ Classified
     /\ design_col # verification_col
     /\ split(design_col) # split(verification_col)
     /\ lower(design_col) # lower(verification_col))
    =>
        LET r == ratio(lower(design_col), lower(verification_col))
        IN  /\ error_type = SpellingError <=> 5 * r[1] > 4 * r[2]
            /\ (5 * r[1] = 4 * r[2] => error_type # SpellingError)
            /\ (design_col = Str_Submsission /\ verification_col = Str_Submission
                    => error_type = SpellingError)

\* a pair whose similarity is exactly 0.80 has been classified
C6_Witness ==
    /\ Classified
    /\ design_col # verification_col
    /\ LET r == ratio(lower(design_col), lower(verification_col))
       IN  5 * r[1] = 4 * r[2]
    /\ error_type # SpellingError

(***************************************************************************)
(* Properties of the structural comparators.                               *)
(***************************************************************************)
CountMismatchKinds == {"Column count mismatch", "Field count mismatch"}

Position(e) == IF "column_number" \in DOMAIN e THEN e.column_number ELSE e.row_number

StandardCalled == standard_number # 0
StandardRead ==
    /\ StandardCalled
    /\ design_doc[design_sheet_name(standard_number)].ok
    /\ verification_doc[verification_sheet_name(standard_number)].ok
SummaryCalled == summary_result # NoResult
SummaryRead ==
    /\ SummaryCalled
    /\ design_doc[SummaryReport].ok
    /\ verification_doc[SummaryTotal].ok

\* the trimmed label sequences the comparators pair up
StandardExpected == strip_all(design_doc[design_sheet_name(standard_number)].cells)
StandardActual == strip_all(verification_doc[verification_sheet_name(standard_number)].cells)
SummaryExpected == strip_all(design_doc[SummaryReport].cells)
SummaryActual == strip_all(verification_doc[SummaryTotal].cells)

\* the details list det records exactly the discrepancies of D against V
RecordsDiscrepancies(det, D, V) ==
    LET positional == {k \in DOMAIN det : det[k].error_type \notin CountMismatchKinds}
        counts == {k \in DOMAIN det : det[k].error_type \in CountMismatchKinds}
        differ == {i \in 1..min(Len(D), Len(V)) : D[i] # V[i]}
    IN  /\ \A i \in differ :
               Cardinality({k \in positional : Position(det[k]) = i}) = 1
        /\ \A k \in positional :
               /\ Position(det[k]) \in differ
               /\ det[k].design = D[Position(det[k])]
               /\ det[k].verification = V[Position(det[k])]
               /\ det[k].error_type =
                      analyze_difference(D[Position(det[k])], V[Position(det[k])])
        /\ \A k1, k2 \in positional :
               k1 < k2 => Position(det[k1]) < Position(det[k2])
        /\ Cardinality(counts) = (IF Len(D) # Len(V) THEN 1 ELSE 0)
        /\ \A k \in counts :
               /\ det[k].design[2] = Len(D)
               /\ det[k].verification[2] = Len(V)

\* C3: the details list holds one positional discrepancy for each index below
\* the shorter length at which the labels differ, in increasing order, with
\* its 1-based position, both labels and the classifier verdict, none for an
\* index beyond the shorter length, and one count mismatch carrying both
\* totals exactly when the lengths differ.
C3_PositionalPairing ==
    /\ StandardRead =>
           RecordsDiscrepancies(standard_result.details, StandardExpected, StandardActual)
    /\ SummaryRead =>
           RecordsDiscrepancies(summary_result.details, SummaryExpected, SummaryActual)

\* 'A','B','C' against 'A','B': one count mismatch, nothing positional
C3_Witness ==
    /\ StandardRead
    /\ StandardExpected = <<<<"A">>, <<"B">>, <<"C">>>>
    /\ StandardActual = <<<<"A">>, <<"B">>>>
    /\ Len(standard_result.details) = 1
    /\ standard_result.details[1].error_type = "Column count mismatch"
    /\ standard_result.details[1].design = <<"Total columns", 3>>
    /\ standard_result.details[1].verification = <<"Total columns", 2>>

\* C4: after a successful read, passed holds exactly when no discrepancy was
\* recorded, which is exactly when the trimmed label sequences are identical;
\* a passed result has an empty details list.
C4_PassedIffIdentical ==
    /\ StandardRead =>
           /\ standard_result.passed <=> StandardExpected = StandardActual
           /\ standard_result.passed <=> standard_result.details = <<>>
    /\ SummaryRead =>
           /\ summary_result.passed <=> SummaryExpected = SummaryActual
           /\ summary_result.passed <=> summary_result.details = <<>>

\* cells that differ only by surrounding blanks compare as identical labels
C4_Witness ==
    /\ SummaryRead
    /\ summary_result.passed
    /\ design_doc[SummaryReport].cells # verification_doc[SummaryTotal].cells
    /\ Len(SummaryExpected) = 2

\* D and V have the same length and differ at one position only, by whitespace
OnlyWhitespaceDiffers(D, V) ==
    /\ Len(D) = Len(V)
    /\ Cardinality({i \in DOMAIN D : D[i] # V[i]}) = 1
    /\ \A i \in DOMAIN D : D[i] # V[i] => split(D[i]) = split(V[i])

OneWhitespaceDiscrepancy(r) ==
    /\ ~r.passed
    /\ Len(r.details) = 1
    /\ r.details[1].error_type = WhitespaceDifference

\* C5: two unequal labels that are equal after collapsing whitespace runs and
\* trimming are a whitespace difference, and a comparison whose only
\* difference is one such pair records exactly one discrepancy, a whitespace
\* difference, and does not pass.
C5_WhitespaceDifference ==
    /\ (/\ Classified
        /\ design_col # verification_col
        /\ split(design_col) = split(verification_col))
           => error_type = WhitespaceDifference
    /\ (StandardRead /\ OnlyWhitespaceDiffers(StandardExpected, StandardActual))
           => OneWhitespaceDiscrepancy(standard_result)
    /\ (SummaryRead /\ OnlyWhitespaceDiffers(SummaryExpected, SummaryActual))
           => OneWhitespaceDiscrepancy(summary_result)

\* 'Case Owner  First Name','Status' against 'Case Owner First Name','Status'
C5_Witness ==
    /\ StandardRead
    /\ StandardExpected = <<Str_CaseOwner_dbl, Str_Status>>
    /\ StandardActual = <<Str_CaseOwner, Str_Status>>
    /\ OneWhitespaceDiscrepancy(standard_result)

(***************************************************************************)
(* Properties of the record spot-check.                                    *)
(***************************************************************************)
CasesChecked == cases_result # NoResult

\* the Standard 2 Report was read and has the three columns the check needs
CaseColumnsLocated ==
    /\ std_df[2].ok
    /\ {CaseNo, DueDate2025, ContactLogExtension} \subseteq Range(std_df[2].columns)

Requested == Range(case_numbers_to_check)

RowsOf(id) == {k \in DOMAIN std_df[2].rows : std_df[2].rows[k][CaseNo] = id}

FoundCase(id) == RowsOf(id) # {}

\* some row of the case has the due date and some row has the contact-log date
CompleteCase(id) ==
    /\ \E k \in RowsOf(id) : std_df[2].rows[k][DueDate2025] # NaN
    /\ \E k \in RowsOf(id) : std_df[2].rows[k][ContactLogExtension] # NaN

\* C7: the spot-check passes exactly when every requested id is found and
\* every found record has both dates, and missing_cases lists exactly the
\* requested ids without a matching row.
C7_SpotCheckVerdict ==
    (CasesChecked /\ CaseColumnsLocated) =>
        /\ cases_result.passed <=>
               /\ \A id \in Requested : FoundCase(id)
               /\ \A id \in Requested : FoundCase(id) => CompleteCase(id)
        /\ "missing_cases" \in DOMAIN cases_result
        /\ Range(cases_result.missing_cases) = {id \in Requested : ~FoundCase(id)}
        /\ Len(cases_result.missing_cases) = Cardinality({id \in Requested : ~FoundCase(id)})

(***************************************************************************)
(* Properties of the summary reconciliation.                               *)
(***************************************************************************)
Reconciled == basic_results # NoResult

CellResults == IF Reconciled THEN basic_results.cells ELSE <<>>

\* calculated = actual as numbers; a null actual equals nothing
NumericallyEqual(calculated, actual) ==
    /\ ~actual.none
    /\ 1000 * calculated[1] = actual.val * calculated[2]

\* |calculated - actual| < 0.01
WithinTolerance(calculated, actual) ==
    /\ ~actual.none
    /\ abs(1000 * calculated[1] - actual.val * calculated[2]) < 10 * calculated[2]

\* C8: every cell result has match = TRUE exactly when calculated and actual
\* are numerically equal (count rows of every section) or differ by less than
\* 0.01 (compliance-rate rows); a published count with a fractional part
\* never matches.
C8_MatchIffEqualOrWithinTolerance ==
    \A cell \in DOMAIN CellResults :
        LET r == CellResults[cell]
        IN  r.match <=> IF r.row_type = "compliance_rate"
                            THEN WithinTolerance(r.calculated, r.actual)
                            ELSE NumericallyEqual(r.calculated, r.actual)

\* C9: the overall verdict of the reconciliation is TRUE exactly when every
\* cell result of every section matches and no section reported an error.
C9_VerdictIffAllMatchAndNoSectionError ==
    Reconciled =>
        (summary_total_passed <=>
            /\ ~basic_results.error
            /\ basic_results.section_errors = {}
            /\ \A cell \in DOMAIN basic_results.cells : basic_results.cells[cell].match)

VisitSections ==
    <<[section_name |-> "7-day", start_row |-> 2],
      [section_name |-> "30-day", start_row |-> 7],
      [section_name |-> "90-day", start_row |-> 12]>>

CountRowTypes == {"total", "compliant", "non_compliant"}

RowTypeOffset(row_type) == CHOOSE k \in 0..3 : row_types[k + 1] = row_type

\* the compliance statuses the row type counts in the Standard n section
Statuses(n, row_type) ==
    CASE row_type = "total" ->
             {"Compliant", "Not Compliant"} \cup (IF n = 3 THEN {"Incomplete"} ELSE {})
      [] row_type = "compliant" -> {"Compliant"}
      [] row_type = "non_compliant" ->
             {"Not Compliant"} \cup (IF n = 3 THEN {"Incomplete"} ELSE {})

Spellings(case_type) ==
    IF case_type = "formal customary care"
        THEN {"fcc", "formal customary care"}
        ELSE {case_type}

Text(v) == IF v = NaN THEN "" ELSE v

\* the detail rows of Standard n that the row type counts for the case type
QualifyingRows(n, case_type, row_type) ==
    {k \in DOMAIN std_df[n].rows :
        LET row == std_df[n].rows[k]
        IN  /\ LowerCase[Text(row[ChangeReason])] = "no"
            /\ LowerCase[Text(row[CaseType])] \in Spellings(case_type)
            /\ Text(row[CompliantHeader(n)]) \in Statuses(n, row_type)}

\* C10: in each visit section, for each case type, the calculated count of
\* the total, compliant and non_compliant rows is the number of detail rows
\* with incorrect-change-reason 'no', that case type (either spelling of
\* formal customary care) and a compliance status of the row type's set.
C10_VisitCounts ==
    \A n \in 1..3 : \A k \in DOMAIN case_types : \A row_type \in CountRowTypes :
        LET cell == <<case_types[k].col_letter,
                      VisitSections[n].start_row + RowTypeOffset(row_type) + 1>>
        IN  cell \in DOMAIN CellResults =>
                CellResults[cell].calculated =
                    <<Cardinality(QualifyingRows(n, case_types[k].case_type, row_type)), 1>>

\* the 90-day section counted an Incomplete row recorded as FCC and one
\* recorded as Formal Customary Care
C10_Witness ==
    /\ <<"D", 13>> \in DOMAIN CellResults
    /\ CellResults[<<"D", 13>>].calculated = <<2, 1>>
    /\ CellResults[<<"D", 15>>].calculated = <<1, 1>>
    /\ \E k \in DOMAIN std_df[3].rows :
           /\ std_df[3].rows[k][CaseType] = "FCC"
           /\ std_df[3].rows[k][CompliantHeader(3)] = "Incomplete"
    /\ \E k \in DOMAIN std_df[3].rows :
           std_df[3].rows[k][CaseType] = "Formal Customary Care"

RateCell(n, k) ==
    <<case_types[k].col_letter, VisitSections[n].start_row + RowTypeOffset("compliance_rate") + 1>>

\* q is compliant / total, and 0 when total is 0
IsRateOf(q, compliant, total) ==
    IF total > 0 THEN q[1] * total = compliant * q[2] ELSE q[1] = 0

\* the detail sheets and the Summary Total sheet were read and every detail
\* sheet has its compliance, change reason and case type columns
SheetsUsable == Reconciled /\ ~basic_results.error

\* C11: for any detail sheet contents every visit section has its
\* compliance-rate cells, whose calculated value is compliant-count /
\* total-count and 0 when total-count is 0; a zero total signals no error.
C11_RateZeroWhenNoTotal ==
    SheetsUsable =>
        /\ basic_results.section_errors \cap
               {section_error_key(VisitSections[n].section_name) : n \in 1..3} = {}
        /\ \A n \in 1..3 : \A k \in DOMAIN case_types :
               /\ RateCell(n, k) \in DOMAIN CellResults
               /\ IsRateOf(CellResults[RateCell(n, k)].calculated,
                           Cardinality(QualifyingRows(n, case_types[k].case_type, "compliant")),
                           Cardinality(QualifyingRows(n, case_types[k].case_type, "total")))

\* the spreadsheet rows of the Summary Total sheet computed from the Standard 3
\* Report: the 90-day visits section, the 90-day row of the whereabouts and
\* the two exclusion sections, the information-only and the kinship row
RowsFromStandard3 == {13, 14, 15, 16, 21, 26, 31, 34, 37}

\* C12: every summary row computed from the 90-day detail sheet, the rows of
\* the 90-day visits section included, has calculated 0 in the 'child in
\* care' column whatever rows the detail sheet holds.
C12_ChildInCareZeroIn90Day ==
    \A row \in RowsFromStandard3 :
        <<"B", row>> \in DOMAIN CellResults =>
            CellResults[<<"B", row>>].calculated[1] = 0

\* the cells that are 0 by rule: the 90-day 'child in care' cell of the
\* whereabouts and the two exclusion sections, the information-only cells
\* outside formal customary care, the kinship cells outside kinship service
StructurallyZero ==
    {<<"B", 21>>, <<"B", 26>>, <<"B", 31>>}
    \cup {<<letter, 34>> : letter \in {"B", "C", "E"}}
    \cup {<<letter, 37>> : letter \in {"B", "C", "D"}}

\* C13: the structurally-zero cells have calculated 0 whatever rows the
\* detail sheets hold.
C13_StructurallyZeroCells ==
    \A cell \in StructurallyZero :
        cell \in DOMAIN CellResults => CellResults[cell].calculated = <<0, 1>>

\* the Standard 3 Report holds a 'child in care' row with exclusion 'Yes',
\* placement 'Other' and change reason 'No', and an Incomplete 'child in care'
\* row with change reason 'Yes'; the cells are there and are 0
C13_Witness ==
    /\ StructurallyZero \subseteq DOMAIN CellResults
    /\ \A cell \in StructurallyZero : CellResults[cell].calculated = <<0, 1>>
    /\ \E k \in DOMAIN std_df[3].rows :
           LET row == std_df[3].rows[k]
           IN  /\ row[CaseType] = "Child in Care"
               /\ row[ChangeReason] = "No"
               /\ row[CompliantHeader(3)] = "Compliant"
               /\ row[PlacementType] = "Other"
               /\ row[ExclusionHeader(3)] = "Yes"
    /\ \E k \in DOMAIN std_df[3].rows :
           LET row == std_df[3].rows[k]
           IN  /\ row[CaseType] = "Child in Care"
               /\ row[ChangeReason] = "Yes"
               /\ row[CompliantHeader(3)] = "Incomplete"

(***************************************************************************)
(* Properties of run_all_cq091_tests.                                      *)
(***************************************************************************)
RunDone == pc = "done"

CoverPassed ==
    /\ cover_results # NoResult
    /\ \A name \in DOMAIN cover_results : cover_results[name].passed

StandardsPassed ==
    /\ Len(standard_results) = 3
    /\ \A n \in 1..3 : standard_results[n].passed

StaticPassed ==
    /\ sensitivity_results # NoResult
    /\ \A name \in DOMAIN sensitivity_results : sensitivity_results[name].passed
    /\ contact_result # NoResult
    /\ contact_result.passed

\* C14: run_all_cq091_tests returns TRUE exactly when every check passed: the
\* three cover results, the three column comparisons, the spot-check, the
\* summary field comparison, the static assertions and the reconciliation.
C14_OverallIsConjunction ==
    RunDone =>
        (all_passed <=>
            /\ CoverPassed
            /\ StandardsPassed
            /\ cases_result # NoResult /\ cases_result.passed
            /\ summary_result # NoResult /\ summary_result.passed
            /\ StaticPassed
            /\ basic_results # NoResult /\ summary_total_passed)

\* a finished run in which only the reconciliation failed
C14_Witness ==
    /\ RunDone
    /\ CoverPassed /\ StandardsPassed /\ cases_result.passed /\ summary_result.passed
    /\ StaticPassed
    /\ ~summary_total_passed
    /\ ~all_passed

CheckOrder ==
    <<"=== Cover Page Tests ===",
      "=== Standard Report Column Tests ===", "STANDARD 1", "STANDARD 2", "STANDARD 3",
      "=== Specific Cases Test (Standard 2 Report) ===",
      "=== Summary Report Test ===",
      "=== Sensitivity and Formula Tests ===",
      "=== Contact Log Requirements Test ===",
      "=== Summary Total Sheet Verification ===",
      "=== FINAL RESULT ===">>

\* C15: the checks run in the fixed order cover page, Standard 1, 2, 3,
\* spot-check, summary fields, static assertions, reconciliation, each
\* exactly once whichever earlier checks failed.
C15_FixedOrderNoFailFast ==
    /\ Len(stdout) <= Len(CheckOrder)
    /\ stdout = SubSeq(CheckOrder, 1, Len(stdout))
    /\ RunDone =>
           /\ stdout = CheckOrder
           /\ cover_results # NoResult
           /\ Len(standard_results) = 3
           /\ cases_result # NoResult
           /\ summary_result # NoResult
           /\ sensitivity_results # NoResult
           /\ contact_result # NoResult
           /\ basic_results # NoResult

\* a finished run whose cover page, column, spot-check and summary field
\* checks all failed
C15_Witness ==
    /\ RunDone
    /\ stdout = CheckOrder
    /\ ~cover_results.title_spelling.passed
    /\ \A n \in 1..3 : ~standard_results[n].passed
    /\ ~cases_result.passed
    /\ ~summary_result.passed
    /\ basic_results # NoResult

\* C16: a read failure in a top-level check gives a failed result with a
\* message describing the failure (and no details in the comparisons and the
\* spot-check); the run goes on to its end.
C16_ReadFailuresAreResults ==
    /\ (cover_results # NoResult /\ ~cover_df.ok) =>
           \A name \in DOMAIN cover_results : cover_results[name] = CoverReadError
    /\ (cover_results # NoResult /\ cover_df.ok /\ Len(cover_df.content) < 3) =>
           cover_results.etl_dates = [passed |-> FALSE, message |-> "Error reading row 3"]
    /\ \A n \in DOMAIN standard_results :
           (~design_doc[design_sheet_name(n)].ok
            \/ ~verification_doc[verification_sheet_name(n)].ok) =>
               /\ ~standard_results[n].passed
               /\ standard_results[n].message = <<"Error reading files for Standard", n>>
               /\ standard_results[n].details = <<>>
    /\ (cases_result # NoResult /\ ~std_df[2].ok) =>
           /\ ~cases_result.passed
           /\ cases_result.message = <<"Error testing specific cases">>
           /\ cases_result.details = <<>>
    /\ (summary_result # NoResult
        /\ (~design_doc[SummaryReport].ok \/ ~verification_doc[SummaryTotal].ok)) =>
           /\ ~summary_result.passed
           /\ summary_result.message = <<"Error reading summary reports">>
           /\ summary_result.details = <<>>
    /\ (basic_results # NoResult
        /\ ((\E n \in 1..3 : ~std_df[n].ok) \/ ~summary_df.ok)) =>
           /\ basic_results.error
           /\ basic_results.message = "Error verifying Summary Total counts"
           /\ DOMAIN basic_results.cells = {}
           /\ ~summary_total_passed
    /\ (RunDone /\ (~cover_df.ok \/ (\E n \in 1..3 : ~std_df[n].ok) \/ ~summary_df.ok
                    \/ \E sheet \in DesignSheets : ~design_doc[sheet].ok)) =>
           stdout = CheckOrder /\ ~all_passed

\* a finished run on a verification workbook without cover sheet, Standard 2
\* Report and Summary Total sheet and an unreadable design workbook
C16_Witness ==
    /\ RunDone
    /\ ~cover_df.ok
    /\ ~std_df[2].ok
    /\ ~summary_df.ok
    /\ \A sheet \in DesignSheets : ~design_doc[sheet].ok
    /\ ~all_passed

\* <<section, row type, start row, row type offset>> of every summary row
SummaryLayout ==
    {<<VisitSections[n].section_name, row_types[k], VisitSections[n].start_row, k - 1>> :
        n \in 1..3, k \in 1..4}
    \cup {<<"whereabouts-unknown", report_names[n], 18, n - 1>> : n \in 1..3}
    \cup {<<"exclusion-service-ended", report_names[n], 23, n - 1>> : n \in 1..3}
    \cup {<<"exclusion-data-entry", report_names[n], 28, n - 1>> : n \in 1..3}
    \cup {<<"information-only", "incomplete-90-day-fcc", 33, 0>>,
          <<"kinship-service-cases", "90-day-placement-other", 36, 0>>}

CaseTypeIndex ==
    <<[letter |-> "B", case_type |-> "child in care"],
      [letter |-> "C", case_type |-> "adoption"],
      [letter |-> "D", case_type |-> "formal customary care"],
      [letter |-> "E", case_type |-> "kinship service"]>>

\* the published number at the 0-based <<row, col>> of the Summary Total sheet
PublishedAt(row, col) ==
    IF row >= summary_df.nrows \/ col >= summary_df.ncols
        THEN [none |-> TRUE, val |-> 0]
    ELSE IF <<row, col>> \in DOMAIN summary_df.values
            /\ summary_df.values[<<row, col>>].kind \in {"num", "str_number"}
        THEN [none |-> FALSE, val |-> summary_df.values[<<row, col>>].val]
        ELSE [none |-> FALSE, val |-> 0]

NoSectionError ==
    Reconciled /\ ~basic_results.error /\ basic_results.section_errors = {}

\* C17: without section errors the merged result has exactly one cell result
\* per (section, row type, case type), 92 in all, under the key of row
\* sectionStartRow + rowTypeOffset and column B..E of the case type, compared
\* against the summary cell at that row and column index 1..4; the 7-day
\* total of 'child in care' is compared against summary cell (2, 1), and 7
\* matching rows against a published 7 match.
C17_OneCellPerCoordinate ==
    NoSectionError =>
        /\ Cardinality(DOMAIN CellResults) = 92
        /\ Cardinality(SummaryLayout) * Len(CaseTypeIndex) = 92
        /\ \A line \in SummaryLayout : \A col \in DOMAIN CaseTypeIndex :
               LET cell == <<CaseTypeIndex[col].letter, line[3] + line[4] + 1>>
               IN  /\ cell \in DOMAIN CellResults
                   /\ CellResults[cell].section = line[1]
                   /\ CellResults[cell].row_type = line[2]
                   /\ CellResults[cell].actual = PublishedAt(line[3] + line[4], col)
        /\ (/\ Cardinality(QualifyingRows(1, "child in care", "total")) = 7
            /\ PublishedAt(2, 1) = [none |-> FALSE, val |-> 7000]) =>
               /\ CellResults[<<"B", 3>>].calculated = <<7, 1>>
               /\ CellResults[<<"B", 3>>].match

\* the Standard 1 Report has 7 matching 'child in care' rows and the summary
\* cell (2, 1) publishes 7
C17_Witness ==
    /\ NoSectionError
    /\ Cardinality(QualifyingRows(1, "child in care", "total")) = 7
    /\ PublishedAt(2, 1) = [none |-> FALSE, val |-> 7000]
    /\ CellResults[<<"B", 3>>].match

\* C18: a pair classified as word order difference has lower-cased word
\* lists that are permutations of each other and are not the same sequence;
\* labels with the same words in the same order never get that verdict.
C18_WordOrderMeansReordered ==
    error_type = WordOrderDifference =>
        /\ TokenBag(Tokens(design_col)) = TokenBag(Tokens(verification_col))
        /\ Tokens(design_col) # Tokens(verification_col)

ReachesContainmentRules ==
    error_type \in {ExtraWordsInActual, MissingWordsInActual, ContentDifference}

\* C19: for a pair that reaches the containment rules, 'every design word is
\* in the verification label' and 'every verification word is in the design
\* label' are never both true, and when neither is true the verdict is
\* content difference.
C19_ContainmentRulesExclusive ==
    ReachesContainmentRules =>
        /\ ~(RuleHolds(6, design_col, verification_col)
                /\ RuleHolds(7, design_col, verification_col))
        /\ (~RuleHolds(6, design_col, verification_col)
                /\ ~RuleHolds(7, design_col, verification_col)
                    => error_type = ContentDifference)

(***************************************************************************)
(* Completeness of a spot-checked record.                                  *)
(***************************************************************************)
\* one row of the case carries the due date and the contact-log date
HasRowWithBothDates(id) ==
    \E k \in RowsOf(id) :
        /\ std_df[2].rows[k][DueDate2025] # NaN
        /\ std_df[2].rows[k][ContactLogExtension] # NaN

\* C20: a spot-checked record is reported with has_due_date and
\* has_contact_log_date both true only if one row of that case has both dates;
\* a requested case whose rows each carry only one of the two dates is not
\* complete and makes the check fail.
C20_CompleteNeedsOneRowWithBothDates ==
    (CasesChecked /\ CaseColumnsLocated) =>
        /\ \A k \in DOMAIN cases_result.details :
               (cases_result.details[k].has_due_date
                    /\ cases_result.details[k].has_contact_log_date)
                   => HasRowWithBothDates(cases_result.details[k].case_number)
        /\ (\E id \in Requested : FoundCase(id) /\ ~HasRowWithBothDates(id))
               => ~cases_result.passed

\* the rows of a case in the order of the sheet
RowsInOrder(id) ==
    LET of_case(row) == row[CaseNo] = id
    IN  SelectSeq(std_df[2].rows, of_case)

\* C21: all rows sharing a requested id are folded into exactly one details
\* entry, so details has one entry per distinct found id; its date values are
\* the rows' values in row order and each has_ flag is true iff some row of
\* the case has that date.
C21_DuplicatesFoldedIntoOneEntry ==
    (CasesChecked /\ CaseColumnsLocated) =>
        /\ {cases_result.details[k].case_number : k \in DOMAIN cases_result.details}
               = {id \in Requested : FoundCase(id)}
        /\ Len(cases_result.details) = Cardinality({id \in Requested : FoundCase(id)})
        /\ \A k \in DOMAIN cases_result.details :
               LET entry == cases_result.details[k]
                   rows == RowsInOrder(entry.case_number)
               IN  /\ entry.due_date = [n \in DOMAIN rows |-> date_str(rows[n][DueDate2025])]
                   /\ entry.contact_log_date =
                          [n \in DOMAIN rows |-> date_str(rows[n][ContactLogExtension])]
                   /\ entry.has_due_date <=>
                          \E n \in DOMAIN rows : rows[n][DueDate2025] # NaN
                   /\ entry.has_contact_log_date <=>
                          \E n \in DOMAIN rows : rows[n][ContactLogExtension] # NaN

\* a case with two rows, of which only one has the due date, has one entry
C21_Witness ==
    /\ CasesChecked
    /\ CaseColumnsLocated
    /\ \E k \in DOMAIN cases_result.details :
           /\ Len(cases_result.details[k].due_date) = 2
           /\ cases_result.details[k].has_due_date
           /\ \E n \in RowsOf(cases_result.details[k].case_number) :
                  std_df[2].rows[n][DueDate2025] = NaN

(***************************************************************************)
(* Letter case of the filtered columns.                                    *)
(***************************************************************************)
\* the canonical spelling of a lower-cased filter value
CanonicalSpelling ==
    "child in care" :> "Child in Care" @@
    "no" :> "No" @@
    "compliant" :> "Compliant" @@
    "not compliant" :> "Not Compliant" @@
    "other" :> "Other"

Canonical(v) ==
    IF v \in DOMAIN LowerCase /\ LowerCase[v] \in DOMAIN CanonicalSpelling
        THEN CanonicalSpelling[LowerCase[v]]
        ELSE v

\* the detail sheets with every cell in its canonical spelling
CanonicalFrames ==
    [n \in 1..3 |->
        IF ~std_df[n].ok THEN std_df[n]
        ELSE [std_df[n] EXCEPT !.rows =
                 [k \in DOMAIN std_df[n].rows |->
                     [c \in DOMAIN std_df[n].rows[k] |-> Canonical(std_df[n].rows[k][c])]]]]

\* C22: every column filter compares the lower-cased value, so a detail row
\* that differs from the filter literals only in letter case is counted, in
\* every section, exactly as the canonically spelled row would be.
C22_FiltersIgnoreLetterCase ==
    Reconciled =>
        LET canonical == verify_summary_total_counts(CanonicalFrames, summary_df)
        IN  \A cell \in DOMAIN CellResults \cap DOMAIN canonical.cells :
                CellResults[cell].calculated = canonical.cells[cell].calculated

(***************************************************************************)
(* Missing columns.                                                        *)
(***************************************************************************)
SectionNames ==
    {"7-day", "30-day", "90-day", "whereabouts-unknown", "exclusion-service-ended",
     "exclusion-data-entry", "information-only", "kinship-service-cases"}

\* the headers of the Standard n Report that the section reads; {} when the
\* sheet does not feed the section
ColumnsRead(section, n) ==
    CASE section \in {"7-day", "30-day", "90-day"} ->
             IF section = report_names[n]
                 THEN {CaseType, ChangeReason, CompliantHeader(n)} ELSE {}
      [] section = "whereabouts-unknown" -> {CaseType, ChangeReason, PlacementType}
      [] section = "exclusion-service-ended" -> {CaseType, ExclusionHeader(n)}
      [] section = "exclusion-data-entry" -> {CaseType, ChangeReason, CompliantHeader(n)}
      [] section = "information-only" ->
             IF n = 3 THEN {CaseType, CompliantHeader(n)} ELSE {}
      [] section = "kinship-service-cases" ->
             IF n = 3 THEN {CaseType, ChangeReason, CompliantHeader(n), PlacementType}
                      ELSE {}

SheetsRead == \A n \in 1..3 : std_df[n].ok

\* the sheet has a header with the text of the header h
HeaderFound(n, h) ==
    \E col \in Range(std_df[n].columns) : HeaderPatterns[col] = HeaderPatterns[h]

ColumnMissing(section) ==
    \E n \in 1..3 : \E h \in ColumnsRead(section, n) : ~HeaderFound(n, h)

CellsOf(section) == {cell \in DOMAIN CellResults : CellResults[cell].section = section}

\* the error entries that can stand for the section
ErrorKeys(section) ==
    CASE section \in {"7-day", "30-day", "90-day"} -> {section_error_key(section)}
      [] section = "whereabouts-unknown" -> {"whereabouts_error"}
      [] section = "exclusion-service-ended" -> {"exclusion_error"}
      [] section = "kinship-service-cases" -> {"kinship_error"}
      [] OTHER -> {}

HasErrorEntry(section) ==
    \/ basic_results.error
    \/ basic_results.section_errors \cap ErrorKeys(section) # {}

\* C23: when a column a section needs is missing from a detail sheet that
\* feeds it, the result has no cell result of that section (no all-zero
\* cells either) and has an error entry instead.
C23_MissingColumnGivesErrorNotCells ==
    (Reconciled /\ SheetsRead) =>
        \A section \in SectionNames :
            ColumnMissing(section) =>
                /\ CellsOf(section) = {}
                /\ HasErrorEntry(section)

\* the Standard 3 Report lacks the placement column: the kinship section has
\* its error entry and no cells, the 90-day visit section has its cells
C23_Witness ==
    /\ Reconciled
    /\ SheetsRead
    /\ ColumnMissing("kinship-service-cases")
    /\ "kinship_error" \in basic_results.section_errors
    /\ CellsOf("kinship-service-cases") = {}
    /\ CellsOf("90-day") # {}

\* the sections that have a detail sheet lacking a column they read
AbortedSections == {section \in SectionNames : ColumnMissing(section)}

\* a visit section has a row with incorrect change reason 'no' to work on
HasRowsToCount(section) ==
    \A n \in 1..3 :
        section = report_names[n] =>
            \E k \in DOMAIN std_df[n].rows :
                LowerCase[Text(std_df[n].rows[k][ChangeReason])] = "no"

\* C24: a missing column is section-scoped: when a required column is missing
\* in one detail sheet, the sections fed by that sheet are aborted with an
\* error entry and the cell results of the sections fed only by other sheets
\* are still produced.
C24_MissingColumnIsSectionScoped ==
    (Reconciled /\ SheetsRead /\ summary_df.ok /\ AbortedSections # {}) =>
        /\ \A section \in AbortedSections : HasErrorEntry(section)
        /\ \A section \in SectionNames \ AbortedSections :
               HasRowsToCount(section) => CellsOf(section) # {}

(***************************************************************************)
(* The published value of a cell.                                          *)
(***************************************************************************)
\* the 0-based <<row, col>> of the Summary Total sheet a cell is compared with
CoordinateOf(cell) ==
    <<cell[2] - 1, CHOOSE col \in DOMAIN CaseTypeIndex : CaseTypeIndex[col].letter = cell[1]>>

OutsideGrid(coord) == coord[1] >= summary_df.nrows \/ coord[2] >= summary_df.ncols

\* the summary cell is empty or holds text that is not a number
EmptyOrNonNumeric(coord) ==
    \/ coord \notin DOMAIN summary_df.values
    \/ summary_df.values[coord].kind \in {"nan", "str_other"}

\* C25: in every section the published value is 0 when the summary cell is
\* empty or non-numeric, so a calculated 0 matches it; it is null only when
\* the coordinate lies outside the summary grid, and then nothing matches,
\* not even a calculated 0.
C25_EmptyIsZeroAndNullOnlyOutsideGrid ==
    \A cell \in DOMAIN CellResults :
        LET result == CellResults[cell]
            coord == CoordinateOf(cell)
        IN  /\ result.actual.none <=> OutsideGrid(coord)
            /\ result.actual.none => ~result.match
            /\ (~OutsideGrid(coord) /\ EmptyOrNonNumeric(coord)) =>
                   /\ result.actual.val = 0
                   /\ (result.calculated[1] = 0 => result.match)

\* B3 is empty and matches a calculated 0 while E3, outside the grid, has a
\* null published value and does not match its calculated 0; the kinship
\* cell E37 holding text matches a calculated 0 in another run
C25_Witness ==
    /\ <<"B", 3>> \in DOMAIN CellResults
    /\ ~OutsideGrid(<<2, 1>>)
    /\ summary_df.values[<<2, 1>>].kind = "nan"
    /\ CellResults[<<"B", 3>>].calculated = <<0, 1>>
    /\ CellResults[<<"B", 3>>].match
    /\ OutsideGrid(<<2, 4>>)
    /\ CellResults[<<"E", 3>>].calculated = <<0, 1>>
    /\ CellResults[<<"E", 3>>].actual.none
    /\ ~CellResults[<<"E", 3>>].match

(***************************************************************************)
(* Unparseable ETL timestamps on the cover page.                           *)
(***************************************************************************)
CoverChecked == cover_results # NoResult

\* the cover line whose ETL timestamps are parsed: row 3 if it matches the
\* pattern, else the first matching line; 0 if there is none
EtlLineUsed ==
    IF ~cover_df.ok \/ Len(cover_df.content) < 3 THEN 0
    ELSE IF cover_df.content[3].etl.matched THEN 3
    ELSE IF \E i \in DOMAIN cover_df.content : cover_df.content[i].etl.matched
        THEN CHOOSE i \in DOMAIN cover_df.content :
                 /\ cover_df.content[i].etl.matched
                 /\ \A j \in 1..(i - 1) : ~cover_df.content[j].etl.matched
        ELSE 0

EtlUnparseable ==
    /\ EtlLineUsed # 0
    /\ \/ ~cover_df.content[EtlLineUsed].etl.start.parsed
       \/ ~cover_df.content[EtlLineUsed].etl.complete.parsed

\* the same cover page with timestamps that parse, started before completed
CoverWithParseableDates ==
    [cover_df EXCEPT !.content[EtlLineUsed].etl = Etl(Stamp(1), Stamp(2))]

\* C26: when the ETL line matches the pattern but a timestamp cannot be
\* parsed, only the etl_dates entry is downgraded to 'Could not parse ETL
\* dates', the title and version entries are what they would be with
\* parseable dates, and the cover-page check is not failed because of it: the
\* run passes exactly when the title, the version and all other checks pass.
C26_DateParseFailureIsLocal ==
    (CoverChecked /\ EtlUnparseable) =>
        /\ cover_results.etl_dates.message = "Could not parse ETL dates"
        /\ cover_results.title_spelling =
               test_cover_page(CoverWithParseableDates, ExpectedVersion).title_spelling
        /\ cover_results.version =
               test_cover_page(CoverWithParseableDates, ExpectedVersion).version
        /\ RunDone =>
               (all_passed <=>
                    /\ cover_results.title_spelling.passed
                    /\ cover_results.version.passed
                    /\ StandardsPassed
                    /\ cases_result.passed
                    /\ summary_result.passed
                    /\ StaticPassed
                    /\ summary_total_passed)

(***************************************************************************)
(* Arithmetic of a visit section.                                          *)
(***************************************************************************)
VisitCell(n, letter, row_type) ==
    <<letter, VisitSections[n].start_row + RowTypeOffset(row_type) + 1>>

\* C27: in every visit section and for every case type the calculated total
\* is the calculated compliant plus the calculated non_compliant count, and
\* the calculated compliance rate lies in [0, 1].
C27_TotalIsSumAndRateInUnitInterval ==
    \A n \in 1..3 : \A col \in DOMAIN CaseTypeIndex :
        LET letter == CaseTypeIndex[col].letter
            value(row_type) == CellResults[VisitCell(n, letter, row_type)].calculated
        IN  VisitCell(n, letter, "total") \in DOMAIN CellResults =>
                /\ value("total")[2] = 1
                /\ value("compliant")[2] = 1
                /\ value("non_compliant")[2] = 1
                /\ value("total")[1] = value("compliant")[1] + value("non_compliant")[1]
                /\ value("compliance_rate")[2] > 0
                /\ 0 <= value("compliance_rate")[1]
                /\ value("compliance_rate")[1] <= value("compliance_rate")[2]

\* the 90-day section counted a compliant and an incomplete row of formal
\* customary care: total 2 = 1 + 1, rate 1/2
C27_Witness ==
    /\ VisitCell(3, "D", "total") \in DOMAIN CellResults
    /\ CellResults[VisitCell(3, "D", "total")].calculated = <<2, 1>>
    /\ CellResults[VisitCell(3, "D", "compliant")].calculated = <<1, 1>>
    /\ CellResults[VisitCell(3, "D", "non_compliant")].calculated = <<1, 1>>
    /\ CellResults[VisitCell(3, "D", "compliance_rate")].calculated = <<1, 2>>
    /\ \E k \in DOMAIN std_df[3].rows :
           std_df[3].rows[k][CompliantHeader(3)] = "Incomplete"

(***************************************************************************)
(* The placement column of the whereabouts-unknown section.                *)
(***************************************************************************)
PlacementHeaders ==
    {h \in DOMAIN HeaderPatterns : "primary in care placement type" \in HeaderPatterns[h]}

\* every sheet has the three columns of find_required_columns and a header
\* with the text 'Primary In Care Placement Type'
PlacementColumnsPresent ==
    /\ SheetsRead
    /\ summary_df.ok
    /\ \A n \in 1..3 :
           /\ \A h \in {CaseType, ChangeReason, CompliantHeader(n), PlacementType} :
                  HeaderFound(n, h)

OwnPlacementHeader(n) == CHOOSE h \in PlacementHeaders : h \in Range(std_df[n].columns)

\* the rows of Standard n with change reason 'no', the case type and the
\* placement type 'whereabouts unknown' in the sheet's own placement column
WhereaboutsUnknownRows(n, case_type) ==
    {k \in DOMAIN std_df[n].rows :
        LET row == std_df[n].rows[k]
        IN  /\ LowerCase[Text(row[ChangeReason])] = "no"
            /\ LowerCase[Text(row[CaseType])] \in Spellings(case_type)
            /\ LowerCase[Text(row[OwnPlacementHeader(n)])] = "whereabouts unknown"}

\* C28: each row of the whereabouts-unknown section filters on the placement
\* column found in its own detail sheet, so when the sheets' placement headers
\* contain the required text without being the same string the twelve cell
\* results are produced and no error is raised.
C28_WhereaboutsUsesOwnPlacementColumn ==
    (Reconciled /\ PlacementColumnsPresent) =>
        /\ ~basic_results.error
        /\ Cardinality(CellsOf("whereabouts-unknown")) = 12
        /\ \A n \in 1..3 : \A col \in DOMAIN CaseTypeIndex :
               LET cell == <<CaseTypeIndex[col].letter, 18 + n>>
               IN  cell \in DOMAIN CellResults =>
                       CellResults[cell].calculated =
                           IF n = 3 /\ CaseTypeIndex[col].case_type = "child in care"
                               THEN <<0, 1>>
                               ELSE <<Cardinality(WhereaboutsUnknownRows(
                                          n, CaseTypeIndex[col].case_type)), 1>>

(***************************************************************************)
(* The case type column.                                                   *)
(***************************************************************************)
RequiredColumnsOf(n) ==
    find_required_columns(std_df[n].columns, 1, compliant_patterns[n],
        [compliant_col |-> None, change_reason_col |-> None, case_type_col |-> None])

\* C29: for a given detail sheet the Case Type column selected by
\* find_required_columns and the one selected by find_case_type_column are
\* the same column, also when several headers contain 'case type'.
C29_OneCaseTypeColumn ==
    (Reconciled /\ SheetsRead) =>
        \A n \in 1..3 :
            RequiredColumnsOf(n).case_type_col = find_case_type_column(std_df[n])

(***************************************************************************)
(* The developer report.                                                   *)
(***************************************************************************)
ReportGenerated == pc = "generated"

\* the status the Dashboard shows for a test category
DashboardStatus(category) ==
    LET rows == writer["Dashboard"].rows
    IN  rows[CHOOSE k \in DOMAIN rows : rows[k].category = category].status

SaysValidationPassed ==
    \E k \in DOMAIN writer["Summary Total Analysis"].rows :
        writer["Summary Total Analysis"].rows[k].Status = ValidationPassed

\* C30: in the generated report the 'Summary Total Analysis' sheet states
\* that the summary-total validation passed only when the reconciliation
\* passed, so it agrees with the Dashboard's 'Summary Total Sheet' status.
C30_AnalysisSheetAgreesWithDashboard ==
    ReportGenerated =>
        /\ DashboardStatus("Summary Total Sheet") =
               status_of(verify_complete_summary_sheet(
                             verify_summary_total_counts(std_df, summary_df)))
        /\ SaysValidationPassed => DashboardStatus("Summary Total Sheet") = "PASS"

====
